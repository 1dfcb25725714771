----------------------------- MODULE LabelStore -----------------------------
(***************************************************************************)
(* Namespace labels (internal/bridge/labels.go): which reservation keys a  *)
(* provider has, which label it is given, and the bounded LRU store that   *)
(* remembers the labels of providers that went away.                       *)
(*                                                                         *)
(* A store is a sequence of [key, label] records with distinct keys, least *)
(* recently touched first: values and order of the Go struct in one value. *)
(* Keys are tuples of strings in place of the formatted strings of the     *)
(* code; "" stands for an absent tab id, provider id or URL.               *)
(***************************************************************************)
EXTENDS Naturals, Sequences, FiniteSets, SequencesExt, TLC, Selections

CONSTANT MaxReservations   \* maxLabelReservations

ASSUME MaxReservationsNat == MaxReservations \in Nat

EmptyStore == <<>>

Keys(store) == {store[i].key : i \in DOMAIN store}

Reserved(store, key) == (CHOOSE e \in ToSet(store) : e.key = key).label

\* remove, of all the keys of entries.
RemoveKeys(store, entries) ==
  Subsequence(store, {i \in DOMAIN store : store[i].key \notin Keys(entries)})

\* touch, of each of these entries in turn: their keys, which are different ones,
\* move to the most recent end.
Touch(store, entries) == RemoveKeys(store, entries) \o entries

\* prune: from the oldest on, entries whose label nobody uses are dropped until
\* the bound holds or only used labels are left.
Prune(store, inUse) ==
  LET evictable(i) == store[i].label \notin inUse
      rank(i) == Cardinality({j \in 1..i : evictable(j)})
  IN  Subsequence(store, {i \in DOMAIN store :
                            evictable(i) => rank(i) + MaxReservations > Len(store)})

(***************************************************************************)
(* keysFor: meta is [base, tab, providerId, url], base already sanitized.  *)
(***************************************************************************)
ExactKeys(m) ==
  IF m.providerId = "" THEN <<>>
  ELSE IF m.tab # ""
       THEN << <<"tab", m.tab, "provider", m.providerId, m.base>> >>
       ELSE << <<"provider", m.providerId, m.base>> >>

FallbackKeys(m) ==
  (IF m.tab # "" THEN << <<"tab", m.tab, m.base>> >> ELSE <<>>)
    \o (IF m.url # "" THEN << <<"url", m.url, m.base>> >> ELSE <<>>)

(***************************************************************************)
(* The i-th candidate of uniqueLabel: the base, then base-2, base-3, ...   *)
(***************************************************************************)
Candidate(base, i) == IF i = 1 THEN base ELSE base \o "-" \o ToString(i)

BaseLabel(base, used, n) == base   \* mutant: labels in use are not looked at

\* uniqueLabel: the first of the first n candidates that is not in use. The
\* code's loop has no bound; n must exceed the number of labels in use.
UniqueLabel(base, used, n) ==
  Candidate(base, CHOOSE i \in 1..n :
                    /\ Candidate(base, i) \notin used
                    /\ \A j \in 1..(i - 1) : Candidate(base, j) \in used)

\* rememberLabel: exact keys take the label, fallback keys keep the one they
\* have; both become the most recent entries.
Remembered(store, m, lab) ==
  LET keys == ExactKeys(m) \o FallbackKeys(m)
      kept(i) == i > Len(ExactKeys(m)) /\ keys[i] \in Keys(store)
  IN  [i \in 1..Len(keys) |->
         [key |-> keys[i],
          label |-> IF kept(i) THEN Reserved(store, keys[i]) ELSE lab]]

RememberLabel(store, m, lab, used) == Prune(Touch(store, Remembered(store, m, lab)), used)

\* assignLabel: the first key in order whose reservation exists and is not in use
\* decides; without one the label is a fresh one.
AssignLabel(store, m, used, n) ==
  LET keys == ExactKeys(m) \o FallbackKeys(m)
      usable == {i \in DOMAIN keys : /\ keys[i] \in Keys(store)
                                     /\ Reserved(store, keys[i]) \notin used}
  IN  IF usable = {} THEN UniqueLabel(m.base, used, n)
      ELSE Reserved(store, keys[CHOOSE i \in usable : \A j \in usable : i <= j])
=============================================================================
