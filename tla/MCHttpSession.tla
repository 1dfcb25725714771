---------------------------- MODULE MCHttpSession ----------------------------
EXTENDS HttpSession

CONSTANTS s1, p1, g1, g2, d1
=============================================================================
