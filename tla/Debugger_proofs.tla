--------------------------- MODULE Debugger_proofs ---------------------------
(***************************************************************************)
(* Proofs about the debugger: its two tables are numbered lists, every     *)
(* label on the heap has one owner, and the checks, the search and the     *)
(* ranking of the profiler do what they say.                               *)
(***************************************************************************)
EXTENDS Debugger, SequencesExt, FiniteSetTheorems, SequenceTheorems,
        WellFoundedInduction, TLAPS

----------------------------------------------------------------------------
(* Tables as values *)

Slots == [enabled : {0, 1}, type : Types \cup {"EXEC"}, addr : Space,
          old_value : Value, label : Pointers \cup {0}]

\* A table of size slots, n of them in use.
Table(T, n, size) ==
  /\ T \in [0 .. size - 1 -> Slots]
  /\ size \in Nat /\ n \in 0 .. size

\* What a listing shows for a slot, and the listing, with the heap h.
Text(h, p) == IF p = 0 THEN "none" ELSE IF p \in DOMAIN h THEN h[p] ELSE "freed"

Entry(h, s) == [addr |-> s.addr, type |-> s.type, enabled |-> s.enabled,
                seen |-> s.old_value, label |-> Text(h, s.label)]

List(h, T, n) == [i \in 1 .. n |-> Entry(h, T[i - 1])]

\* The heaps g and h agree on the labels in use.
Agree(g, h, T, n) ==
  \A i \in 0 .. n - 1 : Text(h, T[i].label) = Text(g, T[i].label)

\* A function on 1 .. n is a sequence of length n.
LEMMA FunctionIsSeq ==
  ASSUME NEW S, NEW n \in Nat, NEW f \in [1 .. n -> S]
  PROVE  f \in Seq(S) /\ Len(f) = n
  OBVIOUS

\* Appending, element by element.
LEMMA Appended ==
  ASSUME NEW S, NEW L \in Seq(S), NEW n \in Nat, n = Len(L), NEW e
  PROVE  Append(L, e) = [i \in 1 .. n + 1 |-> IF i <= n THEN L[i] ELSE e]
  <1> DEFINE F == [i \in 1 .. n + 1 |-> IF i <= n THEN L[i] ELSE e]
             E == S \cup {e}
  <1>0. S \subseteq E
    OBVIOUS
  <1>1. L \in Seq(E) /\ e \in E
    OBVIOUS
  <1> HIDE DEF E
  <1>2. Append(L, e) \in Seq(E) /\ Len(Append(L, e)) = n + 1
    BY <1>1
  <1>3. F \in [1 .. n + 1 -> E]
    <2>1. ASSUME NEW i \in 1 .. n + 1, i <= n PROVE L[i] \in E
      BY <1>0, <2>1
    <2> QED
      BY <1>1, <2>1
  <1>4. \A i \in 1 .. n + 1 : Append(L, e)[i] = F[i]
    OBVIOUS
  <1>5. Append(L, e) \in [1 .. n + 1 -> E]
    BY <1>2, LenProperties
  <1> QED
    BY <1>3, <1>4, <1>5

\* A listing is a sequence.
LEMMA ListIsSeq ==
  ASSUME NEW h, NEW T, NEW n \in Nat
  PROVE  \E S : List(h, T, n) \in Seq(S) /\ Len(List(h, T, n)) = n
  <1> DEFINE S == {Entry(h, T[i - 1]) : i \in 1 .. n}
  <1>1. List(h, T, n) \in [1 .. n -> S]
    BY DEF List
  <1> HIDE DEF S
  <1>2. List(h, T, n) \in Seq(S) /\ Len(List(h, T, n)) = n
    BY <1>1, FunctionIsSeq
  <1> QED
    BY <1>2

\* Slots that stay, under heaps that agree on them, list as before.
LEMMA ListKept ==
  ASSUME NEW g, NEW h, NEW T, NEW n \in Nat, Agree(g, h, T, n)
  PROVE  List(h, T, n) = List(g, T, n)
  <1>1. ASSUME NEW i \in 1 .. n PROVE Entry(h, T[i - 1]) = Entry(g, T[i - 1])
    <2>1. i - 1 \in 0 .. n - 1
      OBVIOUS
    <2> QED
      BY <2>1 DEF Agree, Entry
  <1> QED
    BY <1>1 DEF List

\* A new slot at the end of the used part is a new last entry.
LEMMA ListAdd ==
  ASSUME NEW g, NEW h, NEW T, NEW n, NEW size, Table(T, n, size), n < size,
         NEW s \in Slots, Agree(g, h, T, n),
         NEW U, Table(U, n, size), U[n] = s,
         \A i \in 0 .. n - 1 : U[i] = T[i]
  PROVE  /\ Table(U, n + 1, size)
         /\ List(h, U, n + 1) = Append(List(g, T, n), Entry(h, s))
  <1>1. n \in Nat /\ size \in Nat /\ n \in 0 .. size - 1
    BY DEF Table
  <1>2. /\ U[n] = s /\ U \in [0 .. size - 1 -> Slots]
        /\ \A i \in 0 .. n - 1 : U[i] = T[i]
    BY <1>1 DEF Table
  <1>3. Table(U, n + 1, size)
    BY <1>1, <1>2 DEF Table
  <1>4. PICK S : List(g, T, n) \in Seq(S) /\ Len(List(g, T, n)) = n
    BY <1>1, ListIsSeq
  <1> DEFINE L == List(g, T, n)
             e == Entry(h, s)
  <1>5. \A i \in 1 .. n : L[i] = Entry(h, T[i - 1])
    BY <1>1, ListKept DEF List
  <1>6. \A i \in 1 .. n + 1 :
          Entry(h, U[i - 1]) = IF i <= n THEN L[i] ELSE e
    <2> SUFFICES ASSUME NEW i \in 1 .. n + 1
                 PROVE  Entry(h, U[i - 1]) = IF i <= n THEN L[i] ELSE e
      OBVIOUS
    <2>1. CASE i <= n
      <3>1. i \in 1 .. n /\ i - 1 \in 0 .. n - 1
        BY <1>1, <2>1
      <3> QED
        BY <1>2, <1>5, <2>1, <3>1
    <2>2. CASE ~ i <= n
      <3>1. i - 1 = n
        BY <1>1, <2>2
      <3> QED
        BY <1>2, <2>2, <3>1
    <2> QED
      BY <2>1, <2>2
  <1>7. Append(L, e) = [i \in 1 .. n + 1 |-> IF i <= n THEN L[i] ELSE e]
    <2> HIDE DEF L, e
    <2>1. L \in Seq(S) /\ Len(L) = n
      BY <1>4 DEF L
    <2> QED
      BY <1>1, <2>1, Appended
  <1>8. List(h, U, n + 1) = [i \in 1 .. n + 1 |-> IF i <= n THEN L[i] ELSE e]
    <2> HIDE DEF L, e
    <2> QED
      BY <1>6 DEF List
  <1> QED
    BY <1>3, <1>7, <1>8

\* Removing an element, element by element.
LEMMA Removed ==
  ASSUME NEW S, NEW L \in Seq(S), NEW i \in 1 .. Len(L)
  PROVE  RemoveAt(L, i) =
           [k \in 1 .. Len(L) - 1 |-> IF k < i THEN L[k] ELSE L[k + 1]]
  <1> DEFINE n == Len(L)
             A == SubSeq(L, 1, i - 1)
             B == SubSeq(L, i + 1, n)
             F == [k \in 1 .. n - 1 |-> IF k < i THEN L[k] ELSE L[k + 1]]
  <1>1. n \in Nat /\ i \in 1 .. n /\ \A k \in 1 .. n : L[k] \in S
    BY LenProperties
  <1> HIDE DEF n
  <1>2. A \in Seq(S) /\ Len(A) = i - 1 /\ \A k \in 1 .. i - 1 : A[k] = L[k]
    <2>1. \A k \in 1 .. i - 1 : L[k] \in S
      BY <1>1
    <2>2. i - 1 \in Int /\ 1 \in Int /\ i - 1 >= 0
      BY <1>1
    <2>3. /\ A \in Seq(S) /\ Len(A) = IF 1 <= i - 1 THEN (i - 1) - 1 + 1 ELSE 0
          /\ \A k \in 1 .. (i - 1) - 1 + 1 : A[k] = L[1 + k - 1]
      BY <2>1, <2>2, SubSeqProperties
    <2> QED
      BY <1>1, <2>3
  <1>3. /\ B \in Seq(S) /\ Len(B) = n - i
        /\ \A k \in 1 .. n - i : B[k] = L[i + k]
    <2>1. \A k \in i + 1 .. n : L[k] \in S
      BY <1>1
    <2>2. i + 1 \in Int /\ n \in Int
      BY <1>1
    <2>3. /\ B \in Seq(S) /\ Len(B) = IF i + 1 <= n THEN n - (i + 1) + 1 ELSE 0
          /\ \A k \in 1 .. n - (i + 1) + 1 : B[k] = L[(i + 1) + k - 1]
      BY <2>1, <2>2, SubSeqProperties
    <2> QED
      BY <1>1, <2>3
  <1> HIDE DEF A, B
  <1>4. /\ A \o B \in Seq(S) /\ Len(A \o B) = n - 1
        /\ \A k \in 1 .. n - 1 :
             (A \o B)[k] = IF k <= i - 1 THEN A[k] ELSE B[k - (i - 1)]
    <2>1. (i - 1) + (n - i) = n - 1
      BY <1>1
    <2> QED
      BY <1>2, <1>3, <2>1, ConcatProperties
  <1>5. \A k \in 1 .. n - 1 : (A \o B)[k] = F[k]
    <2> SUFFICES ASSUME NEW k \in 1 .. n - 1 PROVE (A \o B)[k] = F[k]
      OBVIOUS
    <2>1. CASE k < i
      BY <1>1, <1>2, <1>4, <2>1
    <2>2. CASE ~ k < i
      <3>1. k - (i - 1) \in 1 .. n - i /\ i + (k - (i - 1)) = k + 1 /\ ~ k <= i - 1
        BY <1>1, <2>2
      <3> QED
        BY <1>1, <1>3, <1>4, <2>2, <3>1
    <2> QED
      BY <2>1, <2>2
  <1>6. A \o B \in [1 .. n - 1 -> S]
    BY <1>4, LenProperties
  <1>7. F = A \o B
    BY <1>5, <1>6
  <1> QED
    BY <1>7 DEF RemoveAt, A, B, n

\* The loop of a removal takes one entry out of the listing.
LEMMA ListRemove ==
  ASSUME NEW g, NEW h, NEW T, NEW n, NEW size, Table(T, n, size),
         NEW index \in 0 .. n - 1,
         \A i \in 0 .. n - 1 : i # index => Text(h, T[i].label) = Text(g, T[i].label)
  PROVE  /\ Table(ShiftDown(T, n, index), n - 1, size)
         /\ List(h, ShiftDown(T, n, index), n - 1)
              = RemoveAt(List(g, T, n), index + 1)
  <1> DEFINE U == ShiftDown(T, n, index)
             L == List(g, T, n)
  <1>1. n \in Nat /\ size \in Nat /\ n <= size /\ index \in Nat /\ index < n
    BY DEF Table
  <1>2. DOMAIN T = 0 .. size - 1 /\ \A i \in 0 .. size - 1 : T[i] \in Slots
    BY DEF Table
  <1>3. U = [i \in 0 .. size - 1 |-> IF index <= i /\ i < n - 1 THEN T[i + 1]
                                                                ELSE T[i]]
    BY <1>2 DEF ShiftDown
  <1>4. Table(U, n - 1, size)
    <2>1. \A i \in 0 .. size - 1 : i < n - 1 => i + 1 \in 0 .. size - 1
      BY <1>1
    <2>2. U \in [0 .. size - 1 -> Slots]
      BY <1>2, <1>3, <2>1
    <2> QED
      BY <1>1, <2>2 DEF Table
  <1>5. \A i \in 0 .. n - 2 : U[i] = IF index <= i THEN T[i + 1] ELSE T[i]
    BY <1>1, <1>3
  <1> HIDE DEF U
  <1>6. PICK S : L \in Seq(S) /\ Len(L) = n
    BY <1>1, ListIsSeq
  <1>7. \A i \in 1 .. n : L[i] = Entry(g, T[i - 1])
    BY DEF List
  <1> HIDE DEF L
  <1>8. RemoveAt(L, index + 1) =
          [k \in 1 .. n - 1 |-> IF k < index + 1 THEN L[k] ELSE L[k + 1]]
    <2>1. index + 1 \in 1 .. Len(L)
      BY <1>1, <1>6
    <2> QED
      BY <1>6, <2>1, Removed
  <1>9. ASSUME NEW k \in 1 .. n - 1
        PROVE  Entry(h, U[k - 1]) = IF k < index + 1 THEN L[k] ELSE L[k + 1]
    <2>1. k \in Nat /\ k - 1 \in 0 .. n - 2 /\ k - 1 \in 0 .. n - 1
          /\ k \in 0 .. n - 1 /\ k \in 1 .. n /\ k + 1 \in 1 .. n
          /\ (k + 1) - 1 = k /\ (k - 1) + 1 = k
      BY <1>1
    <2>2. CASE k < index + 1
      <3>1. U[k - 1] = T[k - 1] /\ k - 1 # index
        BY <1>1, <1>5, <2>1, <2>2
      <3> QED
        BY <1>7, <2>1, <2>2, <3>1 DEF Entry
    <2>3. CASE ~ k < index + 1
      <3>1. U[k - 1] = T[k] /\ k # index
        BY <1>1, <1>5, <2>1, <2>3
      <3>2. L[k + 1] = Entry(g, T[k])
        BY <1>7, <2>1
      <3> QED
        BY <2>1, <2>3, <3>1, <3>2 DEF Entry
    <2> QED
      BY <2>2, <2>3
  <1>10. List(h, U, n - 1) =
           [k \in 1 .. n - 1 |-> IF k < index + 1 THEN L[k] ELSE L[k + 1]]
    BY <1>9 DEF List
  <1> QED
    BY <1>4, <1>8, <1>10 DEF U, L

\* A slot, or an entry, switched on or off.
Switched(T, i, enabled) == [T EXCEPT ![i].enabled = enabled]

\* Switching a slot on or off switches its entry.
LEMMA ListEnable ==
  ASSUME NEW h, NEW T, NEW n, NEW size, Table(T, n, size),
         NEW index \in 0 .. n - 1, NEW enabled \in {0, 1}
  PROVE  /\ Table(Switched(T, index, enabled), n, size)
         /\ List(h, Switched(T, index, enabled), n)
              = Switched(List(h, T, n), index + 1, enabled)
  <1> DEFINE U == [T EXCEPT ![index].enabled = enabled]
             L == List(h, T, n)
  <1>1. n \in Nat /\ size \in Nat /\ n <= size /\ index \in Nat /\ index < n
        /\ index \in 0 .. size - 1 /\ 0 .. n - 1 \subseteq 0 .. size - 1
    BY DEF Table
  <1>2. T \in [0 .. size - 1 -> Slots] /\ T[index] \in Slots
    BY <1>1 DEF Table
  <1>3. /\ U = [i \in 0 .. size - 1 |->
                  IF i = index THEN [T[index] EXCEPT !.enabled = enabled]
                               ELSE T[i]]
        /\ [T[index] EXCEPT !.enabled = enabled] \in Slots
    BY <1>1, <1>2 DEF Slots
  <1>4. U \in [0 .. size - 1 -> Slots] /\ Table(U, n, size)
    BY <1>1, <1>2, <1>3 DEF Table
  <1>5. /\ U[index] = [T[index] EXCEPT !.enabled = enabled]
        /\ \A i \in 0 .. n - 1 : i # index => U[i] = T[i]
    BY <1>1, <1>3
  <1> HIDE DEF U
  <1>6. Entry(h, U[index]) = [Entry(h, T[index]) EXCEPT !.enabled = enabled]
    BY <1>2, <1>5 DEF Entry, Slots
  <1>7. [L EXCEPT ![index + 1].enabled = enabled] =
          [i \in 1 .. n |-> IF i = index + 1
                            THEN [Entry(h, T[index]) EXCEPT !.enabled = enabled]
                            ELSE Entry(h, T[i - 1])]
    <2>1. L = [i \in 1 .. n |-> Entry(h, T[i - 1])]
      BY DEF List
    <2>2. (index + 1) - 1 = index /\ index + 1 \in 1 .. n
      BY <1>1
    <2>3. L[index + 1] = Entry(h, T[index])
      BY <2>1, <2>2
    <2> QED
      BY <2>1, <2>2, <2>3
  <1>8. \A i \in 1 .. n :
          Entry(h, U[i - 1]) =
            IF i = index + 1 THEN [Entry(h, T[index]) EXCEPT !.enabled = enabled]
                             ELSE Entry(h, T[i - 1])
    <2> SUFFICES ASSUME NEW i \in 1 .. n
                 PROVE  Entry(h, U[i - 1]) =
            IF i = index + 1 THEN [Entry(h, T[index]) EXCEPT !.enabled = enabled]
                             ELSE Entry(h, T[i - 1])
      OBVIOUS
    <2>1. i - 1 \in 0 .. n - 1 /\ (i = index + 1 <=> i - 1 = index)
      BY <1>1
    <2> QED
      BY <1>5, <1>6, <2>1
  <1>9. List(h, U, n) =
          [i \in 1 .. n |-> IF i = index + 1
                            THEN [Entry(h, T[index]) EXCEPT !.enabled = enabled]
                            ELSE Entry(h, T[i - 1])]
    BY <1>8 DEF List
  <1> QED
    BY <1>4, <1>7, <1>9 DEF U, Switched

\* A check brings the entries that are switched on up to date.
LEMMA ListCheck ==
  ASSUME NEW h, NEW T, NEW n, NEW size, Table(T, n, size),
         NEW mem \in [Space -> Value], NEW U,
         U = [i \in DOMAIN T |->
                IF i < n /\ T[i].enabled # 0
                THEN [T[i] EXCEPT !.old_value = mem[T[i].addr]] ELSE T[i]]
  PROVE  /\ Table(U, n, size)
         /\ \A i \in 0 .. n - 1 : U[i].label = T[i].label
         /\ List(h, U, n) =
              [i \in DOMAIN List(h, T, n) |->
                 IF List(h, T, n)[i].enabled = 1
                 THEN [List(h, T, n)[i] EXCEPT
                         !.seen = mem[List(h, T, n)[i].addr]]
                 ELSE List(h, T, n)[i]]
  <1>1. n \in Nat /\ size \in Nat /\ 0 .. n - 1 \subseteq 0 .. size - 1
        /\ T \in [0 .. size - 1 -> Slots]
    BY DEF Table
  <1>2. ASSUME NEW i \in 0 .. size - 1
        PROVE  /\ [T[i] EXCEPT !.old_value = mem[T[i].addr]] \in Slots
               /\ T[i] \in Slots
    <2>1. T[i] \in Slots /\ mem[T[i].addr] \in Value
      BY <1>1 DEF Slots
    <2> QED
      BY <2>1 DEF Slots
  <1>3. U = [i \in 0 .. size - 1 |->
               IF i < n /\ T[i].enabled # 0
               THEN [T[i] EXCEPT !.old_value = mem[T[i].addr]] ELSE T[i]]
    BY <1>1
  <1>4. U \in [0 .. size - 1 -> Slots] /\ Table(U, n, size)
    BY <1>2, <1>3 DEF Table
  <1>5. ASSUME NEW i \in 0 .. n - 1
        PROVE  /\ U[i].label = T[i].label
               /\ Entry(h, U[i]) =
                    IF Entry(h, T[i]).enabled = 1
                    THEN [Entry(h, T[i]) EXCEPT
                            !.seen = mem[Entry(h, T[i]).addr]]
                    ELSE Entry(h, T[i])
    <2>1. /\ U[i] = IF T[i].enabled # 0
                    THEN [T[i] EXCEPT !.old_value = mem[T[i].addr]] ELSE T[i]
          /\ T[i] \in Slots
      BY <1>1, <1>2, <1>3
    <2>2. T[i].enabled \in {0, 1}
      BY <2>1 DEF Slots
    <2>3. CASE T[i].enabled = 1
      BY <2>1, <2>3 DEF Entry, Slots
    <2>4. CASE T[i].enabled = 0
      BY <2>1, <2>4 DEF Entry, Slots
    <2> QED
      BY <2>2, <2>3, <2>4
  <1>6. \A i \in 1 .. n : i - 1 \in 0 .. n - 1
    BY <1>1
  <1>7. PICK L : L = List(h, T, n)
    OBVIOUS
  <1>8. DOMAIN L = 1 .. n /\ \A i \in 1 .. n : L[i] = Entry(h, T[i - 1])
    BY <1>7 DEF List
  <1>9. \A i \in 1 .. n :
          Entry(h, U[i - 1]) =
            IF L[i].enabled = 1 THEN [L[i] EXCEPT !.seen = mem[L[i].addr]]
                                ELSE L[i]
    BY <1>5, <1>6, <1>8
  <1>10. List(h, U, n) =
           [i \in DOMAIN L |->
              IF L[i].enabled = 1 THEN [L[i] EXCEPT !.seen = mem[L[i].addr]]
                                  ELSE L[i]]
    BY <1>8, <1>9 DEF List
  <1>11. \A i \in 0 .. n - 1 : U[i].label = T[i].label
    BY <1>5
  <1> QED
    BY <1>4, <1>7, <1>10, <1>11

----------------------------------------------------------------------------
(* Ownership of labels *)

\* The labels in the n used slots of T and the m used slots of U are the
\* blocks of the heap h, each once, except for the lost blocks.
Owned(h, lost, T, n, U, m) ==
  /\ lost \subseteq DOMAIN h /\ 0 \notin DOMAIN h
  /\ \A i \in 0 .. n - 1 : T[i].label \in (DOMAIN h \ lost) \cup {0}
  /\ \A i \in 0 .. m - 1 : U[i].label \in (DOMAIN h \ lost) \cup {0}
  /\ \A i, j \in 0 .. n - 1 :
       T[i].label = T[j].label /\ T[i].label # 0 => i = j
  /\ \A i, j \in 0 .. m - 1 :
       U[i].label = U[j].label /\ U[i].label # 0 => i = j
  /\ \A i \in 0 .. n - 1, j \in 0 .. m - 1 :
       T[i].label = U[j].label => T[i].label = 0
  /\ \A p \in DOMAIN h \ lost :
       \/ \E i \in 0 .. n - 1 : T[i].label = p
       \/ \E i \in 0 .. m - 1 : U[i].label = p

\* The heap without some blocks.
Rest(h, blocks) == [p \in DOMAIN h \ blocks |-> h[p]]

\* The two tables play the same part.
LEMMA OwnedSwap ==
  ASSUME NEW h, NEW lost, NEW T, NEW n, NEW U, NEW m,
         Owned(h, lost, T, n, U, m)
  PROVE  Owned(h, lost, U, m, T, n)
  BY DEF Owned

\* Steps that change no label in use.
LEMMA OwnedSame ==
  ASSUME NEW h, NEW lost, NEW T, NEW n, NEW U, NEW m, NEW V,
         Owned(h, lost, T, n, U, m),
         \A i \in 0 .. n - 1 : V[i].label = T[i].label
  PROVE  Owned(h, lost, V, n, U, m)
  BY DEF Owned

\* strdup: p is no label, or a block that was free, and g is the heap then.
Given(h, g, p) ==
  \/ p = 0 /\ g = h
  \/ /\ p # 0 /\ p \notin DOMAIN h
     /\ DOMAIN g = DOMAIN h \cup {p} /\ \A q \in DOMAIN h : g[q] = h[q]

\* V is T with a slot labelled p behind the n used ones.
Labelled(T, V, n, p) ==
  V[n].label = p /\ \A i \in 0 .. n - 1 : V[i].label = T[i].label

\* A new point, with its label.
LEMMA OwnedAdd ==
  ASSUME NEW h, NEW lost, NEW T, NEW n \in Nat, NEW U, NEW m, NEW V, NEW g, NEW p,
         Owned(h, lost, T, n, U, m),
         Given(h, g, p),
         Labelled(T, V, n, p)
  PROVE  /\ Owned(g, lost, V, n + 1, U, m)
         /\ Agree(h, g, T, n) /\ Agree(h, g, U, m)
  <1>1. \A i \in 0 .. n : i = n \/ i \in 0 .. n - 1
    OBVIOUS
  <1>2. 0 .. (n + 1) - 1 = 0 .. n /\ n \in 0 .. n /\ 0 .. n - 1 \subseteq 0 .. n
        /\ n \notin 0 .. n - 1
    OBVIOUS
  <1>a. V[n].label = p /\ \A i \in 0 .. n - 1 : V[i].label = T[i].label
    BY DEF Labelled
  <1>3. Agree(h, g, T, n) /\ Agree(h, g, U, m)
    BY DEF Owned, Agree, Text, Given
  <1>4. CASE p = 0 /\ g = h
    BY <1>a, <1>1, <1>2, <1>3, <1>4 DEF Owned
  <1>5. CASE /\ p # 0 /\ p \notin DOMAIN h /\ DOMAIN g = DOMAIN h \cup {p}
    <2>1. lost \subseteq DOMAIN g /\ 0 \notin DOMAIN g /\ p \notin lost
      BY <1>5 DEF Owned
    <2>2. /\ \A i \in 0 .. n : V[i].label \in (DOMAIN g \ lost) \cup {0}
          /\ \A i \in 0 .. m - 1 : U[i].label \in (DOMAIN g \ lost) \cup {0}
      BY <1>a, <1>1, <1>5, <2>1 DEF Owned
    <2>3. /\ \A i \in 0 .. n - 1 : V[i].label # p
          /\ \A i \in 0 .. m - 1 : U[i].label # p
      BY <1>a, <1>5 DEF Owned
    <2>4. \A i, j \in 0 .. n :
            V[i].label = V[j].label /\ V[i].label # 0 => i = j
      BY <1>a, <1>1, <2>3 DEF Owned
    <2>5. \A i \in 0 .. n, j \in 0 .. m - 1 :
            V[i].label = U[j].label => V[i].label = 0
      BY <1>a, <1>1, <2>3 DEF Owned
    <2>6. ASSUME NEW q \in DOMAIN g \ lost
          PROVE  \/ \E i \in 0 .. n : V[i].label = q
                 \/ \E i \in 0 .. m - 1 : U[i].label = q
      <3>1. CASE q = p
        BY <1>a, <1>2, <3>1
      <3>2. CASE q # p
        <4>1. q \in DOMAIN h \ lost
          BY <1>5, <3>2
        <4> QED
          BY <1>a, <1>2, <4>1 DEF Owned
      <3> QED
        BY <3>1, <3>2
    <2>7. \A i, j \in 0 .. m - 1 :
            U[i].label = U[j].label /\ U[i].label # 0 => i = j
      BY DEF Owned
    <2> QED
      BY <1>2, <1>3, <2>1, <2>2, <2>4, <2>5, <2>6, <2>7 DEF Owned
  <1> QED
    BY <1>4, <1>5 DEF Given

\* A point and its label removed, the later ones moved up.
LEMMA OwnedRemove ==
  ASSUME NEW h, NEW lost, NEW T, NEW n, NEW U, NEW m, NEW size,
         Table(T, n, size), Owned(h, lost, T, n, U, m),
         NEW index \in 0 .. n - 1, NEW g, g = Rest(h, {T[index].label})
  PROVE  /\ Owned(g, lost, ShiftDown(T, n, index), n - 1, U, m)
         /\ Agree(h, g, U, m)
         /\ \A i \in 0 .. n - 1 :
              i # index => Text(g, T[i].label) = Text(h, T[i].label)
  <1> DEFINE p == T[index].label
             V == ShiftDown(T, n, index)
  <1>1. n \in Nat /\ size \in Nat /\ n <= size /\ index \in Nat /\ index < n
        /\ DOMAIN T = 0 .. size - 1
    BY DEF Table
  <1>2. DOMAIN g = DOMAIN h \ {p} /\ \A q \in DOMAIN g : g[q] = h[q]
    BY DEF Rest
  <1>3. p # 0 => /\ \A i \in 0 .. n - 1 : i # index => T[i].label # p
                 /\ \A i \in 0 .. m - 1 : U[i].label # p
    BY DEF Owned
  <1>4. \A i \in 0 .. n - 2 :
          \E k \in 0 .. n - 1 :
            k # index /\ V[i] = T[k] /\ i = IF k < index THEN k ELSE k - 1
    <2> SUFFICES ASSUME NEW i \in 0 .. n - 2
                 PROVE  \E k \in 0 .. n - 1 :
                          /\ k # index /\ V[i] = T[k]
                          /\ i = IF k < index THEN k ELSE k - 1
      OBVIOUS
    <2>1. V[i] = IF index <= i THEN T[i + 1] ELSE T[i]
      BY <1>1 DEF ShiftDown
    <2>2. CASE index <= i
      <3>1. i + 1 \in 0 .. n - 1 /\ i + 1 # index /\ i = (i + 1) - 1
            /\ ~ (i + 1 < index)
        BY <1>1, <2>2
      <3> QED
        BY <2>1, <2>2, <3>1
    <2>3. CASE ~ index <= i
      <3>1. i \in 0 .. n - 1 /\ i # index /\ i < index
        BY <1>1, <2>3
      <3> QED
        BY <2>1, <2>3, <3>1
    <2> QED
      BY <2>2, <2>3
  <1>5. \A k \in 0 .. n - 1 :
          k # index => \E i \in 0 .. n - 2 : V[i] = T[k]
    <2> SUFFICES ASSUME NEW k \in 0 .. n - 1, k # index
                 PROVE  \E i \in 0 .. n - 2 : V[i] = T[k]
      OBVIOUS
    <2>1. CASE k < index
      <3>1. k \in 0 .. n - 2 /\ k \in DOMAIN T /\ ~ index <= k
        BY <1>1, <2>1
      <3> QED
        BY <3>1 DEF ShiftDown
    <2>2. CASE k > index
      <3>1. k - 1 \in 0 .. n - 2 /\ k - 1 \in DOMAIN T /\ index <= k - 1
            /\ k - 1 < n - 1 /\ (k - 1) + 1 = k
        BY <1>1, <2>2
      <3> QED
        BY <3>1 DEF ShiftDown
    <2> QED
      BY <1>1, <2>1, <2>2
  <1> HIDE DEF V, p
  <1>6. 0 .. (n - 1) - 1 = 0 .. n - 2
    BY <1>1
  <1>7. p \notin lost
    BY DEF Owned, p
  <1>8. \A i \in 0 .. n - 2 : V[i].label \in (DOMAIN g \ lost) \cup {0}
    BY <1>2, <1>3, <1>4 DEF Owned
  <1>9. \A i \in 0 .. m - 1 : U[i].label \in (DOMAIN g \ lost) \cup {0}
    BY <1>2, <1>3 DEF Owned
  <1>10. \A i, j \in 0 .. n - 2 :
           V[i].label = V[j].label /\ V[i].label # 0 => i = j
    BY <1>4 DEF Owned
  <1>11. \A i \in 0 .. n - 2, j \in 0 .. m - 1 :
           V[i].label = U[j].label => V[i].label = 0
    BY <1>4 DEF Owned
  <1>12. ASSUME NEW q \in DOMAIN g \ lost
         PROVE  \/ \E i \in 0 .. n - 2 : V[i].label = q
                \/ \E i \in 0 .. m - 1 : U[i].label = q
    <2>1. q \in DOMAIN h \ lost /\ q # p
      BY <1>2, <1>12
    <2>2. CASE \E i \in 0 .. m - 1 : U[i].label = q
      BY <2>2
    <2>3. CASE \E k \in 0 .. n - 1 : T[k].label = q
      BY <1>5, <2>1, <2>3 DEF p
    <2> QED
      BY <2>1, <2>2, <2>3 DEF Owned
  <1>13. lost \subseteq DOMAIN g /\ 0 \notin DOMAIN g
    BY <1>2, <1>7 DEF Owned
  <1>14. Owned(g, lost, V, n - 1, U, m)
    <2>1. \A i, j \in 0 .. m - 1 :
            U[i].label = U[j].label /\ U[i].label # 0 => i = j
      BY DEF Owned
    <2> QED
      BY <1>6, <1>8, <1>9, <1>10, <1>11, <1>12, <1>13, <2>1 DEF Owned
  <1>15. Agree(h, g, U, m)
    BY <1>2, <1>3 DEF Agree, Text, Owned
  <1>16. \A i \in 0 .. n - 1 :
           i # index => Text(g, T[i].label) = Text(h, T[i].label)
    BY <1>2, <1>3 DEF Text, Owned
  <1> QED
    BY <1>14, <1>15, <1>16 DEF V

\* What LabelsOf collects.
LEMMA LabelsIn ==
  ASSUME NEW T, NEW n, NEW p
  PROVE  p \in LabelsOf(T, n) <=> p # 0 /\ \E i \in 0 .. n - 1 : T[i].label = p
  BY DEF LabelsOf

\* All points of one table given up, with their labels.
LEMMA OwnedClear ==
  ASSUME NEW h, NEW lost, NEW T, NEW n, NEW U, NEW m, NEW V, NEW g,
         Owned(h, lost, T, n, U, m), g = Rest(h, LabelsOf(T, n))
  PROVE  Owned(g, lost, V, 0, U, m) /\ Agree(h, g, U, m)
  <1>1. DOMAIN g = DOMAIN h \ LabelsOf(T, n) /\ \A q \in DOMAIN g : g[q] = h[q]
    BY DEF Rest
  <1>2. 0 .. 0 - 1 = {}
    OBVIOUS
  <1>3. \A i \in 0 .. m - 1 : U[i].label \notin LabelsOf(T, n)
    BY LabelsIn DEF Owned
  <1>4. lost \subseteq DOMAIN g /\ 0 \notin DOMAIN g
    BY <1>1, LabelsIn DEF Owned
  <1>5. \A i \in 0 .. m - 1 : U[i].label \in (DOMAIN g \ lost) \cup {0}
    BY <1>1, <1>3 DEF Owned
  <1>6. \A p \in DOMAIN g \ lost : \E i \in 0 .. m - 1 : U[i].label = p
    BY <1>1, LabelsIn DEF Owned
  <1>7. Owned(g, lost, V, 0, U, m)
    BY <1>2, <1>4, <1>5, <1>6 DEF Owned
  <1>8. Agree(h, g, U, m)
    BY <1>1, <1>5 DEF Agree, Text, Owned
  <1> QED
    BY <1>7, <1>8

\* All points of both tables given up, with their labels.
LEMMA OwnedCleanup ==
  ASSUME NEW h, NEW lost, NEW T, NEW n, NEW U, NEW m, NEW V, NEW W, NEW g,
         Owned(h, lost, T, n, U, m),
         g = Rest(h, LabelsOf(T, n) \cup LabelsOf(U, m))
  PROVE  Owned(g, lost, V, 0, W, 0)
  <1>1. DOMAIN g = DOMAIN h \ (LabelsOf(T, n) \cup LabelsOf(U, m))
    BY DEF Rest
  <1>2. 0 .. 0 - 1 = {}
    OBVIOUS
  <1>3. lost \subseteq DOMAIN g /\ 0 \notin DOMAIN g
    BY <1>1, LabelsIn DEF Owned
  <1>4. DOMAIN g \ lost = {}
    BY <1>1, LabelsIn DEF Owned
  <1> QED
    BY <1>2, <1>3, <1>4 DEF Owned

\* All points forgotten: their blocks are lost.
LEMMA OwnedForget ==
  ASSUME NEW h, NEW lost, NEW T, NEW n, NEW U, NEW m, NEW V, NEW W,
         Owned(h, lost, T, n, U, m)
  PROVE  Owned(h, lost \cup LabelsOf(T, n) \cup LabelsOf(U, m), V, 0, W, 0)
  <1> DEFINE all == lost \cup LabelsOf(T, n) \cup LabelsOf(U, m)
  <1>1. all \subseteq DOMAIN h /\ DOMAIN h \subseteq all
    BY LabelsIn DEF Owned
  <1>2. 0 .. 0 - 1 = {}
    OBVIOUS
  <1> HIDE DEF all
  <1>3. Owned(h, all, V, 0, W, 0)
    BY <1>1, <1>2 DEF Owned
  <1> QED
    BY <1>3 DEF all

----------------------------------------------------------------------------
(* The invariant, and what the steps do to the two lists *)

DebugInv ==
  /\ Table(breakpoints, breakpoint_count, MAX_BREAKPOINTS)
  /\ Table(watchpoints, watchpoint_count, MAX_WATCHPOINTS)
  /\ memory \in [Space -> Value]
  /\ Owned(heap, leaked, breakpoints, breakpoint_count,
           watchpoints, watchpoint_count)

BreakList == List(heap, breakpoints, breakpoint_count)
WatchList == List(heap, watchpoints, watchpoint_count)

BreakStep == [Breaks!ListNext]_(Listed(breakpoints, breakpoint_count))
WatchStep == [Watches!ListNext]_(Listed(watchpoints, watchpoint_count))

\* The refinement mapping in terms of values.
LEMMA Mapping ==
  /\ Listed(breakpoints, breakpoint_count) = BreakList
  /\ Listed(breakpoints, breakpoint_count)' = BreakList'
  /\ Listed(watchpoints, watchpoint_count) = WatchList
  /\ Listed(watchpoints, watchpoint_count)' = WatchList'
  BY DEF Listed, BreakList, WatchList, List, Entry, Text

\* A list that stays makes no step.
LEMMA BreaksStay ==
  ASSUME BreakList' = BreakList PROVE BreakStep
  BY Mapping DEF BreakStep

\* The same for the watchpoints.
LEMMA WatchesStay ==
  ASSUME WatchList' = WatchList PROVE WatchStep
  BY Mapping DEF WatchStep

\* A point at the end of the list.
LEMMA AppendedLast ==
  ASSUME NEW S, NEW L \in Seq(S), NEW e, NEW M, M = Append(L, e)
  PROVE  M # << >> /\ Last(M) = e
  <1>1. Len(M) = Len(L) + 1 /\ M[Len(L) + 1] = e /\ Len(L) \in Nat
    OBVIOUS
  <1> QED
    BY <1>1 DEF Last

\* A breakpoint, which has shown nothing, at the end of the list.
LEMMA BreakAdded ==
  ASSUME DebugInv, breakpoint_count < MAX_BREAKPOINTS,
         NEW e, BreakList' = Append(BreakList, e),
         e.enabled = 1, e.seen = 0, e.addr \in Space
  PROVE  BreakStep
  <1>1. breakpoint_count \in Nat
    BY DEF DebugInv, Table
  <1>2. PICK S : BreakList \in Seq(S) /\ Len(BreakList) = breakpoint_count
    BY <1>1, ListIsSeq DEF BreakList
  <1>3. PICK L, M : L = BreakList /\ M = BreakList'
    OBVIOUS
  <1>4. M # << >> /\ Last(M) = e /\ M = Append(L, e)
    BY <1>2, <1>3, AppendedLast
  <1>5. ZeroCounts[e.addr] = 0
    BY DEF ZeroCounts
  <1>6. Breaks!AddPoint
    <2>1. Breaks!Last(M) = e
      BY <1>4 DEF Breaks!Last, Last
    <2>2. /\ Listed(breakpoints, breakpoint_count) = L
          /\ Listed(breakpoints, breakpoint_count)' = M
      BY <1>3, Mapping
    <2> QED
      BY <1>2, <1>3, <1>4, <1>5, <2>1, <2>2 DEF Breaks!AddPoint
  <1> QED
    BY <1>6 DEF BreakStep, Breaks!ListNext

\* A watchpoint, with the value of the moment, at the end of the list.
LEMMA WatchAdded ==
  ASSUME DebugInv, watchpoint_count < MAX_WATCHPOINTS,
         NEW e, WatchList' = Append(WatchList, e),
         e.enabled = 1, e.seen = memory[e.addr]
  PROVE  WatchStep
  <1>1. watchpoint_count \in Nat
    BY DEF DebugInv, Table
  <1>2. PICK S : WatchList \in Seq(S) /\ Len(WatchList) = watchpoint_count
    BY <1>1, ListIsSeq DEF WatchList
  <1>3. PICK L, M : L = WatchList /\ M = WatchList'
    OBVIOUS
  <1>4. M # << >> /\ Last(M) = e /\ M = Append(L, e)
    BY <1>2, <1>3, AppendedLast
  <1>5. Watches!AddPoint
    <2>1. Watches!Last(M) = e
      BY <1>4 DEF Watches!Last, Last
    <2>2. /\ Listed(watchpoints, watchpoint_count) = L
          /\ Listed(watchpoints, watchpoint_count)' = M
      BY <1>3, Mapping
    <2> QED
      BY <1>2, <1>3, <1>4, <2>1, <2>2 DEF Watches!AddPoint
  <1> QED
    BY <1>5 DEF WatchStep, Watches!ListNext

\* The other steps of the list of breakpoints.
LEMMA BreakRemoved ==
  ASSUME DebugInv, NEW index \in 0 .. breakpoint_count - 1,
         BreakList' = RemoveAt(BreakList, index + 1)
  PROVE  BreakStep /\ Breaks!RemovePoint(index + 1)
  <1>1. breakpoint_count \in Nat
    BY DEF DebugInv, Table
  <1>2. index + 1 \in DOMAIN BreakList
    BY <1>1 DEF BreakList, List
  <1>3. Breaks!RemoveAt(BreakList, index + 1) = RemoveAt(BreakList, index + 1)
    BY DEF Breaks!RemoveAt, RemoveAt
  <1>4. /\ Breaks!RemovePoint(index + 1)
        /\ index + 1 \in DOMAIN Listed(breakpoints, breakpoint_count)
    BY <1>2, <1>3, Mapping DEF Breaks!RemovePoint
  <1> QED
    BY <1>4 DEF BreakStep, Breaks!ListNext

\* Switching one on or off.
LEMMA BreakEnabled ==
  ASSUME DebugInv, NEW index \in 0 .. breakpoint_count - 1, NEW enabled \in {0, 1},
         BreakList' = [BreakList EXCEPT ![index + 1].enabled = enabled]
  PROVE  BreakStep /\ Breaks!EnablePoint(index + 1, enabled)
  <1>1. breakpoint_count \in Nat
    BY DEF DebugInv, Table
  <1>2. index + 1 \in DOMAIN BreakList
    BY <1>1 DEF BreakList, List
  <1>3. /\ Breaks!EnablePoint(index + 1, enabled)
        /\ index + 1 \in DOMAIN Listed(breakpoints, breakpoint_count)
    BY <1>2, Mapping DEF Breaks!EnablePoint
  <1> QED
    BY <1>3 DEF BreakStep, Breaks!ListNext

\* Giving all of them up.
LEMMA BreakCleared ==
  ASSUME breakpoint_count' = 0 PROVE BreakStep
  <1>1. BreakList' = << >>
    BY DEF BreakList, List
  <1>2. Breaks!ClearPoints
    BY <1>1, Mapping DEF Breaks!ClearPoints
  <1> QED
    BY <1>2 DEF BreakStep, Breaks!ListNext

\* The other steps of the list of watchpoints.
LEMMA WatchRemoved ==
  ASSUME DebugInv, NEW index \in 0 .. watchpoint_count - 1,
         WatchList' = RemoveAt(WatchList, index + 1)
  PROVE  WatchStep /\ Watches!RemovePoint(index + 1)
  <1>1. watchpoint_count \in Nat
    BY DEF DebugInv, Table
  <1>2. index + 1 \in DOMAIN WatchList
    BY <1>1 DEF WatchList, List
  <1>3. Watches!RemoveAt(WatchList, index + 1) = RemoveAt(WatchList, index + 1)
    BY DEF Watches!RemoveAt, RemoveAt
  <1>4. /\ Watches!RemovePoint(index + 1)
        /\ index + 1 \in DOMAIN Listed(watchpoints, watchpoint_count)
    BY <1>2, <1>3, Mapping DEF Watches!RemovePoint
  <1> QED
    BY <1>4 DEF WatchStep, Watches!ListNext

\* Switching one on or off.
LEMMA WatchEnabled ==
  ASSUME DebugInv, NEW index \in 0 .. watchpoint_count - 1, NEW enabled \in {0, 1},
         WatchList' = [WatchList EXCEPT ![index + 1].enabled = enabled]
  PROVE  WatchStep /\ Watches!EnablePoint(index + 1, enabled)
  <1>1. watchpoint_count \in Nat
    BY DEF DebugInv, Table
  <1>2. index + 1 \in DOMAIN WatchList
    BY <1>1 DEF WatchList, List
  <1>3. /\ Watches!EnablePoint(index + 1, enabled)
        /\ index + 1 \in DOMAIN Listed(watchpoints, watchpoint_count)
    BY <1>2, Mapping DEF Watches!EnablePoint
  <1> QED
    BY <1>3 DEF WatchStep, Watches!ListNext

\* Giving all of them up.
LEMMA WatchCleared ==
  ASSUME watchpoint_count' = 0 PROVE WatchStep
  <1>1. WatchList' = << >>
    BY DEF WatchList, List
  <1>2. Watches!ClearPoints
    BY <1>1, Mapping DEF Watches!ClearPoints
  <1> QED
    BY <1>2 DEF WatchStep, Watches!ListNext

\* A check of the watchpoints.
LEMMA WatchChecked ==
  ASSUME WatchList' =
           [i \in DOMAIN WatchList |->
              IF WatchList[i].enabled = 1
              THEN [WatchList[i] EXCEPT !.seen = memory[WatchList[i].addr]]
              ELSE WatchList[i]]
  PROVE  WatchStep
  <1>1. Watches!CheckPoints
    BY Mapping DEF Watches!CheckPoints
  <1> QED
    BY <1>1 DEF WatchStep, Watches!ListNext

----------------------------------------------------------------------------
(* One lemma per action *)

\* The label argument of an add: none, or a block that was free.
LEMMA LabelGiven ==
  ASSUME NEW addr, NEW p \in Pointers \cup {0}, NewLabel(addr, p)
  PROVE  Given(heap, heap', p)
  <1>1. CASE heap' = heap /\ p = 0
    BY <1>1 DEF Given
  <1>2. CASE /\ p \in Pointers \ DOMAIN heap
             /\ heap' = [q \in DOMAIN heap \cup {p} |->
                          IF q = p THEN Name[addr] ELSE heap[q]]
    <2>1. p # 0
      BY <1>2, DebuggerAssumption
    <2> QED
      BY <1>2, <2>1 DEF Given
  <1> QED
    BY <1>1, <1>2 DEF NewLabel, strdup

\* debugger_add_breakpoint.
LEMMA AddBreakStep ==
  ASSUME DebugInv, NEW type \in Types, NEW addr \in DOMAIN Name,
         debugger_add_breakpoint(type, addr)
  PROVE  DebugInv' /\ BreakStep /\ WatchStep
  <1> DEFINE n == breakpoint_count
  <1>1. PICK p \in Pointers \cup {0} :
          /\ NewLabel(addr, p)
          /\ breakpoints' = [breakpoints EXCEPT ![n] =
               [enabled |-> 1, type |-> type, addr |-> addr,
                old_value |-> 0, label |-> p]]
    BY DEF debugger_add_breakpoint
  <1> DEFINE s == [enabled |-> 1, type |-> type, addr |-> addr,
                   old_value |-> 0, label |-> p]
  <1>2. /\ n < MAX_BREAKPOINTS /\ breakpoint_count' = n + 1
        /\ UNCHANGED <<watchpoints, watchpoint_count, leaked, memory>>
        /\ breakpoints' = [breakpoints EXCEPT ![n] = s]
    BY <1>1 DEF debugger_add_breakpoint, Untouched_by_breakpoints
  <1>3. s \in Slots /\ addr \in Space
    <2>1. addr \in Space /\ 0 \in Value
      BY DebuggerAssumption DEF Space
    <2>2. memory[addr] \in Value
      BY <2>1 DEF DebugInv
    <2> QED
      BY <2>1, <2>2 DEF Slots
  <1>4. Table(breakpoints, n, MAX_BREAKPOINTS) /\ n \in Nat /\ n \in 0 .. MAX_BREAKPOINTS - 1
    BY <1>2 DEF DebugInv, Table
  <1>5. Owned(heap, leaked, breakpoints, n, watchpoints, watchpoint_count)
    BY DEF DebugInv
  <1>6. /\ s.label = p /\ s.enabled = 1 /\ s.addr = addr
        /\ s.old_value = 0
    OBVIOUS
  <1>7. breakpoints'[n] = s /\ \A i \in 0 .. n - 1 : breakpoints'[i] = breakpoints[i]
    BY <1>2, <1>4 DEF Table
  <1> HIDE DEF s
  <1>8. /\ Owned(heap', leaked, breakpoints', n + 1, watchpoints, watchpoint_count)
        /\ Agree(heap, heap', breakpoints, n)
        /\ Agree(heap, heap', watchpoints, watchpoint_count)
    <2>1. Given(heap, heap', p)
      BY <1>1, LabelGiven
    <2>2. breakpoints'[n].label = p
          /\ \A i \in 0 .. n - 1 : breakpoints'[i].label = breakpoints[i].label
      BY <1>6, <1>7
    <2>3. PICK h, g, T, V, U, m, c :
            /\ h = heap /\ g = heap' /\ T = breakpoints /\ V = breakpoints'
            /\ U = watchpoints /\ m = watchpoint_count /\ c = n
      OBVIOUS
    <2>4. Given(h, g, p) /\ c \in Nat /\ Labelled(T, V, c, p)
      BY <1>4, <2>1, <2>2, <2>3 DEF Labelled
    <2>5. Owned(h, leaked, T, c, U, m)
      BY <1>5, <2>3
    <2>6. Owned(g, leaked, V, c + 1, U, m) /\ Agree(h, g, T, c) /\ Agree(h, g, U, m)
      BY <2>4, <2>5, OwnedAdd
    <2> QED
      BY <2>3, <2>6
  <1>9. /\ Table(breakpoints', n + 1, MAX_BREAKPOINTS)
        /\ List(heap', breakpoints', n + 1)
             = Append(List(heap, breakpoints, n), Entry(heap', s))
    <2>1. Table(breakpoints', n, MAX_BREAKPOINTS)
      BY <1>2, <1>3, <1>4 DEF Table
    <2>2. n < MAX_BREAKPOINTS /\ s \in Slots
      BY <1>2, <1>3
    <2> HIDE DEF n
    <2> QED
      BY <1>4, <1>7, <1>8, <2>1, <2>2, ListAdd
  <1>10. BreakStep
    <2>1. PICK e : e = Entry(heap', s)
      OBVIOUS
    <2>2. e.enabled = 1 /\ e.seen = 0 /\ e.addr = addr
      BY <1>6, <2>1 DEF Entry
    <2>3. BreakList' = Append(BreakList, e)
      BY <1>2, <1>9, <2>1 DEF BreakList
    <2> QED
      BY <1>2, <1>3, <2>2, <2>3, BreakAdded
  <1>11. WatchStep
    <2>1. watchpoint_count \in Nat
      BY DEF DebugInv, Table
    <2>2. WatchList' = WatchList
      BY <1>2, <1>8, <2>1, ListKept DEF WatchList
    <2> QED
      BY <2>2, WatchesStay
  <1>12. DebugInv'
    BY <1>2, <1>8, <1>9 DEF DebugInv
  <1> QED
    BY <1>10, <1>11, <1>12

\* debugger_add_watchpoint.
LEMMA AddWatchStep ==
  ASSUME DebugInv, NEW addr \in DOMAIN Name,
         debugger_add_watchpoint(addr)
  PROVE  DebugInv' /\ BreakStep /\ WatchStep
  <1> DEFINE n == watchpoint_count
  <1>1. PICK p \in Pointers \cup {0} :
          /\ NewLabel(addr, p)
          /\ watchpoints' = [watchpoints EXCEPT ![n] =
               [enabled |-> 1, type |-> "EXEC", addr |-> addr,
                old_value |-> memory[addr], label |-> p]]
    BY DEF debugger_add_watchpoint
  <1> DEFINE s == [enabled |-> 1, type |-> "EXEC", addr |-> addr,
                   old_value |-> memory[addr], label |-> p]
  <1>2. /\ n < MAX_WATCHPOINTS /\ watchpoint_count' = n + 1
        /\ UNCHANGED <<breakpoints, breakpoint_count, leaked, memory>>
        /\ watchpoints' = [watchpoints EXCEPT ![n] = s]
    BY <1>1 DEF debugger_add_watchpoint, Untouched_by_watchpoints
  <1>3. s \in Slots /\ addr \in Space
    <2>1. addr \in Space /\ 0 \in Value
      BY DebuggerAssumption DEF Space
    <2>2. memory[addr] \in Value
      BY <2>1 DEF DebugInv
    <2> QED
      BY <2>1, <2>2 DEF Slots
  <1>4. Table(watchpoints, n, MAX_WATCHPOINTS) /\ n \in Nat /\ n \in 0 .. MAX_WATCHPOINTS - 1
    BY <1>2 DEF DebugInv, Table
  <1>5. Owned(heap, leaked, watchpoints, n, breakpoints, breakpoint_count)
    BY OwnedSwap DEF DebugInv
  <1>6. /\ s.label = p /\ s.enabled = 1 /\ s.addr = addr
        /\ s.old_value = memory[addr]
    OBVIOUS
  <1>7. watchpoints'[n] = s /\ \A i \in 0 .. n - 1 : watchpoints'[i] = watchpoints[i]
    BY <1>2, <1>4 DEF Table
  <1> HIDE DEF s
  <1>8. /\ Owned(heap', leaked, watchpoints', n + 1, breakpoints, breakpoint_count)
        /\ Agree(heap, heap', watchpoints, n)
        /\ Agree(heap, heap', breakpoints, breakpoint_count)
    <2>1. Given(heap, heap', p)
      BY <1>1, LabelGiven
    <2>2. watchpoints'[n].label = p
          /\ \A i \in 0 .. n - 1 : watchpoints'[i].label = watchpoints[i].label
      BY <1>6, <1>7
    <2>3. PICK h, g, T, V, U, m, c :
            /\ h = heap /\ g = heap' /\ T = watchpoints /\ V = watchpoints'
            /\ U = breakpoints /\ m = breakpoint_count /\ c = n
      OBVIOUS
    <2>4. Given(h, g, p) /\ c \in Nat /\ Labelled(T, V, c, p)
      BY <1>4, <2>1, <2>2, <2>3 DEF Labelled
    <2>5. Owned(h, leaked, T, c, U, m)
      BY <1>5, <2>3
    <2>6. Owned(g, leaked, V, c + 1, U, m) /\ Agree(h, g, T, c) /\ Agree(h, g, U, m)
      BY <2>4, <2>5, OwnedAdd
    <2> QED
      BY <2>3, <2>6
  <1>9. /\ Table(watchpoints', n + 1, MAX_WATCHPOINTS)
        /\ List(heap', watchpoints', n + 1)
             = Append(List(heap, watchpoints, n), Entry(heap', s))
    <2>1. Table(watchpoints', n, MAX_WATCHPOINTS)
      BY <1>2, <1>3, <1>4 DEF Table
    <2>2. n < MAX_WATCHPOINTS /\ s \in Slots
      BY <1>2, <1>3
    <2> HIDE DEF n
    <2> QED
      BY <1>4, <1>7, <1>8, <2>1, <2>2, ListAdd
  <1>10. WatchStep
    <2>1. PICK e : e = Entry(heap', s)
      OBVIOUS
    <2>2. e.enabled = 1 /\ e.seen = memory[addr] /\ e.addr = addr
      BY <1>6, <2>1 DEF Entry
    <2>3. WatchList' = Append(WatchList, e)
      BY <1>2, <1>9, <2>1 DEF WatchList
    <2> QED
      BY <1>2, <1>3, <2>2, <2>3, WatchAdded
  <1>11. BreakStep
    <2>1. breakpoint_count \in Nat
      BY DEF DebugInv, Table
    <2>2. BreakList' = BreakList
      BY <1>2, <1>8, <2>1, ListKept DEF BreakList
    <2> QED
      BY <2>2, BreaksStay
  <1>12. DebugInv'
    BY <1>2, <1>8, <1>9, OwnedSwap DEF DebugInv
  <1> QED
    BY <1>10, <1>11, <1>12

\* A table that was zeroed is a table.
LEMMA ZeroIsTable ==
  ASSUME NEW size \in Nat PROVE Table(ZeroTable(size), 0, size)
  <1>1. ZeroSlot \in Slots
    BY DebuggerAssumption, InspectionAssumption DEF ZeroSlot, Slots, Space
  <1> QED
    BY <1>1 DEF ZeroTable, Table

\* debugger_remove_breakpoint.
LEMMA RemoveBreakStep ==
  ASSUME DebugInv, NEW index \in 0 .. MAX_BREAKPOINTS - 1,
         debugger_remove_breakpoint(index)
  PROVE  /\ DebugInv' /\ BreakStep /\ WatchStep
         /\ Breaks!RemovePoint(index + 1)
  <1> DEFINE n == breakpoint_count
             p == breakpoints[index].label
  <1>1. /\ index < n /\ heap' = Rest(heap, {p})
        /\ breakpoints' = ShiftDown(breakpoints, n, index)
        /\ breakpoint_count' = n - 1
        /\ UNCHANGED <<watchpoints, watchpoint_count, leaked, memory>>
    BY DEF debugger_remove_breakpoint, Untouched_by_breakpoints, Without, Rest
  <1>2. /\ Table(breakpoints, n, MAX_BREAKPOINTS) /\ watchpoint_count \in Nat
        /\ Owned(heap, leaked, breakpoints, breakpoint_count,
              watchpoints, watchpoint_count)
    BY DEF DebugInv, Table
  <1>3. index \in 0 .. n - 1
    BY <1>1, <1>2 DEF Table
  <1>4. /\ Owned(heap', leaked, ShiftDown(breakpoints, n, index), n - 1,
                 watchpoints, watchpoint_count)
        /\ Agree(heap, heap', watchpoints, watchpoint_count)
        /\ \A i \in 0 .. n - 1 :
             i # index => Text(heap', breakpoints[i].label)
                            = Text(heap, breakpoints[i].label)
    BY <1>1, <1>2, <1>3, OwnedRemove
  <1>5. /\ Table(ShiftDown(breakpoints, n, index), n - 1, MAX_BREAKPOINTS)
        /\ List(heap', ShiftDown(breakpoints, n, index), n - 1)
             = RemoveAt(List(heap, breakpoints, n), index + 1)
    BY <1>2, <1>3, <1>4, ListRemove
  <1>6. BreakStep /\ Breaks!RemovePoint(index + 1)
    <2>1. BreakList' = RemoveAt(BreakList, index + 1)
      BY <1>1, <1>5 DEF BreakList
    <2> QED
      BY <1>3, <2>1, BreakRemoved
  <1>7. WatchStep
    <2>1. WatchList' = WatchList
      BY <1>1, <1>2, <1>4, ListKept DEF WatchList
    <2> QED
      BY <2>1, WatchesStay
  <1>8. DebugInv'
    BY <1>1, <1>4, <1>5 DEF DebugInv
  <1> QED
    BY <1>6, <1>7, <1>8

\* debugger_enable_breakpoint.
LEMMA EnableBreakStep ==
  ASSUME DebugInv, NEW index \in 0 .. MAX_BREAKPOINTS - 1, NEW enabled \in {0, 1},
         debugger_enable_breakpoint(index, enabled)
  PROVE  /\ DebugInv' /\ BreakStep /\ WatchStep
         /\ Breaks!EnablePoint(index + 1, enabled)
  <1> DEFINE n == breakpoint_count
             V == Switched(breakpoints, index, enabled)
  <1>1. /\ index < n /\ breakpoints' = V /\ breakpoint_count' = n
        /\ UNCHANGED <<watchpoints, watchpoint_count, leaked, memory, heap>>
    BY DEF debugger_enable_breakpoint, Untouched_by_breakpoints, Switched
  <1>2. /\ Table(breakpoints, n, MAX_BREAKPOINTS) /\ watchpoint_count \in Nat
        /\ Owned(heap, leaked, breakpoints, breakpoint_count,
              watchpoints, watchpoint_count)
    BY DEF DebugInv, Table
  <1>3. index \in 0 .. n - 1
    BY <1>1, <1>2 DEF Table
  <1>4. /\ Table(V, n, MAX_BREAKPOINTS)
        /\ List(heap, V, n)
             = Switched(List(heap, breakpoints, n), index + 1, enabled)
    BY <1>2, <1>3, ListEnable
  <1>5. \A i \in 0 .. n - 1 : V[i].label = breakpoints[i].label
    BY <1>2, <1>3 DEF Table, Slots, Switched
  <1> HIDE DEF V
  <1>6. Owned(heap, leaked, V, n, watchpoints, watchpoint_count)
    BY <1>2, <1>5, OwnedSame
  <1>7. BreakStep /\ Breaks!EnablePoint(index + 1, enabled)
    <2>1. BreakList' = [BreakList EXCEPT ![index + 1].enabled = enabled]
      BY <1>1, <1>4 DEF BreakList, Switched
    <2> QED
      BY <1>3, <2>1, BreakEnabled
  <1>8. WatchStep
    BY <1>1, WatchesStay DEF WatchList
  <1>9. DebugInv'
    BY <1>1, <1>4, <1>6 DEF DebugInv
  <1> QED
    BY <1>7, <1>8, <1>9

\* debugger_clear_breakpoints.
LEMMA ClearBreakStep ==
  ASSUME DebugInv, debugger_clear_breakpoints
  PROVE  DebugInv' /\ BreakStep /\ WatchStep
  <1>1. /\ heap' = Rest(heap, LabelsOf(breakpoints, breakpoint_count))
        /\ breakpoints' = ZeroTable(MAX_BREAKPOINTS) /\ breakpoint_count' = 0
        /\ UNCHANGED <<watchpoints, watchpoint_count, leaked, memory>>
    BY DEF debugger_clear_breakpoints, Untouched_by_breakpoints, Without, Rest
  <1>2. /\ watchpoint_count \in Nat
        /\ Owned(heap, leaked, breakpoints, breakpoint_count,
              watchpoints, watchpoint_count)
    BY DEF DebugInv, Table
  <1>3. Table(breakpoints', 0, MAX_BREAKPOINTS)
    BY <1>1, ZeroIsTable, DebuggerAssumption
  <1>4. /\ Owned(heap', leaked, breakpoints', 0, watchpoints, watchpoint_count)
        /\ Agree(heap, heap', watchpoints, watchpoint_count)
    BY <1>1, <1>2, OwnedClear
  <1>5. WatchStep
    <2>1. WatchList' = WatchList
      BY <1>1, <1>2, <1>4, ListKept DEF WatchList
    <2> QED
      BY <2>1, WatchesStay
  <1>6. DebugInv'
    BY <1>1, <1>3, <1>4 DEF DebugInv
  <1> QED
    BY <1>1, <1>5, <1>6, BreakCleared

\* debugger_remove_watchpoint.
LEMMA RemoveWatchStep ==
  ASSUME DebugInv, NEW index \in 0 .. MAX_WATCHPOINTS - 1,
         debugger_remove_watchpoint(index)
  PROVE  /\ DebugInv' /\ BreakStep /\ WatchStep
         /\ Watches!RemovePoint(index + 1)
  <1> DEFINE n == watchpoint_count
             p == watchpoints[index].label
  <1>1. /\ index < n /\ heap' = Rest(heap, {p})
        /\ watchpoints' = ShiftDown(watchpoints, n, index)
        /\ watchpoint_count' = n - 1
        /\ UNCHANGED <<breakpoints, breakpoint_count, leaked, memory>>
    BY DEF debugger_remove_watchpoint, Untouched_by_watchpoints, Without, Rest
  <1>2. /\ Table(watchpoints, n, MAX_WATCHPOINTS) /\ breakpoint_count \in Nat
        /\ Owned(heap, leaked, watchpoints, watchpoint_count,
              breakpoints, breakpoint_count)
    BY OwnedSwap DEF DebugInv, Table
  <1>3. index \in 0 .. n - 1
    BY <1>1, <1>2 DEF Table
  <1>4. /\ Owned(heap', leaked, ShiftDown(watchpoints, n, index), n - 1,
                 breakpoints, breakpoint_count)
        /\ Agree(heap, heap', breakpoints, breakpoint_count)
        /\ \A i \in 0 .. n - 1 :
             i # index => Text(heap', watchpoints[i].label)
                            = Text(heap, watchpoints[i].label)
    BY <1>1, <1>2, <1>3, OwnedRemove
  <1>5. /\ Table(ShiftDown(watchpoints, n, index), n - 1, MAX_WATCHPOINTS)
        /\ List(heap', ShiftDown(watchpoints, n, index), n - 1)
             = RemoveAt(List(heap, watchpoints, n), index + 1)
    BY <1>2, <1>3, <1>4, ListRemove
  <1>6. WatchStep /\ Watches!RemovePoint(index + 1)
    <2>1. WatchList' = RemoveAt(WatchList, index + 1)
      BY <1>1, <1>5 DEF WatchList
    <2> QED
      BY <1>3, <2>1, WatchRemoved
  <1>7. BreakStep
    <2>1. BreakList' = BreakList
      BY <1>1, <1>2, <1>4, ListKept DEF BreakList
    <2> QED
      BY <2>1, BreaksStay
  <1>8. DebugInv'
    BY <1>1, <1>4, <1>5, OwnedSwap DEF DebugInv
  <1> QED
    BY <1>6, <1>7, <1>8

\* debugger_enable_watchpoint.
LEMMA EnableWatchStep ==
  ASSUME DebugInv, NEW index \in 0 .. MAX_WATCHPOINTS - 1, NEW enabled \in {0, 1},
         debugger_enable_watchpoint(index, enabled)
  PROVE  /\ DebugInv' /\ BreakStep /\ WatchStep
         /\ Watches!EnablePoint(index + 1, enabled)
  <1> DEFINE n == watchpoint_count
             V == Switched(watchpoints, index, enabled)
  <1>1. /\ index < n /\ watchpoints' = V /\ watchpoint_count' = n
        /\ UNCHANGED <<breakpoints, breakpoint_count, leaked, memory, heap>>
    BY DEF debugger_enable_watchpoint, Untouched_by_watchpoints, Switched
  <1>2. /\ Table(watchpoints, n, MAX_WATCHPOINTS) /\ breakpoint_count \in Nat
        /\ Owned(heap, leaked, watchpoints, watchpoint_count,
              breakpoints, breakpoint_count)
    BY OwnedSwap DEF DebugInv, Table
  <1>3. index \in 0 .. n - 1
    BY <1>1, <1>2 DEF Table
  <1>4. /\ Table(V, n, MAX_WATCHPOINTS)
        /\ List(heap, V, n)
             = Switched(List(heap, watchpoints, n), index + 1, enabled)
    BY <1>2, <1>3, ListEnable
  <1>5. \A i \in 0 .. n - 1 : V[i].label = watchpoints[i].label
    BY <1>2, <1>3 DEF Table, Slots, Switched
  <1> HIDE DEF V
  <1>6. Owned(heap, leaked, V, n, breakpoints, breakpoint_count)
    BY <1>2, <1>5, OwnedSame
  <1>7. WatchStep /\ Watches!EnablePoint(index + 1, enabled)
    <2>1. WatchList' = [WatchList EXCEPT ![index + 1].enabled = enabled]
      BY <1>1, <1>4 DEF WatchList, Switched
    <2> QED
      BY <1>3, <2>1, WatchEnabled
  <1>8. BreakStep
    BY <1>1, BreaksStay DEF BreakList
  <1>9. DebugInv'
    BY <1>1, <1>4, <1>6, OwnedSwap DEF DebugInv
  <1> QED
    BY <1>7, <1>8, <1>9

\* debugger_clear_watchpoints.
LEMMA ClearWatchStep ==
  ASSUME DebugInv, debugger_clear_watchpoints
  PROVE  DebugInv' /\ BreakStep /\ WatchStep
  <1>1. /\ heap' = Rest(heap, LabelsOf(watchpoints, watchpoint_count))
        /\ watchpoints' = ZeroTable(MAX_WATCHPOINTS) /\ watchpoint_count' = 0
        /\ UNCHANGED <<breakpoints, breakpoint_count, leaked, memory>>
    BY DEF debugger_clear_watchpoints, Untouched_by_watchpoints, Without, Rest
  <1>2. /\ breakpoint_count \in Nat
        /\ Owned(heap, leaked, watchpoints, watchpoint_count,
              breakpoints, breakpoint_count)
    BY OwnedSwap DEF DebugInv, Table
  <1>3. Table(watchpoints', 0, MAX_WATCHPOINTS)
    BY <1>1, ZeroIsTable, DebuggerAssumption
  <1>4. /\ Owned(heap', leaked, watchpoints', 0, breakpoints, breakpoint_count)
        /\ Agree(heap, heap', breakpoints, breakpoint_count)
    BY <1>1, <1>2, OwnedClear
  <1>5. BreakStep
    <2>1. BreakList' = BreakList
      BY <1>1, <1>2, <1>4, ListKept DEF BreakList
    <2> QED
      BY <2>1, BreaksStay
  <1>6. DebugInv'
    BY <1>1, <1>3, <1>4, OwnedSwap DEF DebugInv
  <1> QED
    BY <1>1, <1>5, <1>6, WatchCleared

\* debugger_check_watchpoints.
LEMMA CheckStep ==
  ASSUME DebugInv, debugger_check_watchpoints
  PROVE  DebugInv' /\ BreakStep /\ WatchStep
  <1> DEFINE n == watchpoint_count
  <1>1. /\ watchpoints' = [i \in DOMAIN watchpoints |->
             IF i < n /\ watchpoints[i].enabled # 0
             THEN [watchpoints[i] EXCEPT
                     !.old_value = memory[watchpoints[i].addr]]
             ELSE watchpoints[i]]
        /\ watchpoint_count' = n
        /\ UNCHANGED <<breakpoints, breakpoint_count, leaked, memory, heap>>
    BY DEF debugger_check_watchpoints, Untouched_by_watchpoints
  <1>2. /\ Table(watchpoints, n, MAX_WATCHPOINTS)
        /\ memory \in [Space -> Value]
        /\ Owned(heap, leaked, watchpoints, n, breakpoints, breakpoint_count)
    BY OwnedSwap DEF DebugInv
  <1>3. PICK V : V = watchpoints'
    OBVIOUS
  <1>4. /\ Table(V, n, MAX_WATCHPOINTS)
        /\ \A i \in 0 .. n - 1 : V[i].label = watchpoints[i].label
        /\ List(heap, V, n) =
             [i \in DOMAIN WatchList |->
                IF WatchList[i].enabled = 1
                THEN [WatchList[i] EXCEPT !.seen = memory[WatchList[i].addr]]
                ELSE WatchList[i]]
    BY <1>1, <1>2, <1>3, ListCheck DEF WatchList
  <1>5. Owned(heap, leaked, V, n, breakpoints, breakpoint_count)
    BY <1>2, <1>4, OwnedSame
  <1>6. WatchStep
    <2>1. WatchList' = List(heap, V, n)
      BY <1>1, <1>3 DEF WatchList
    <2> QED
      BY <1>4, <2>1, WatchChecked
  <1>7. BreakStep
    BY <1>1, BreaksStay DEF BreakList
  <1>8. DebugInv'
    BY <1>1, <1>3, <1>4, <1>5, OwnedSwap DEF DebugInv
  <1> QED
    BY <1>6, <1>7, <1>8

\* debugger_init, which forgets the labels.
LEMMA InitStep ==
  ASSUME DebugInv, debugger_init
  PROVE  DebugInv' /\ BreakStep /\ WatchStep
  <1>1. /\ breakpoints' = ZeroTable(MAX_BREAKPOINTS) /\ breakpoint_count' = 0
        /\ watchpoints' = ZeroTable(MAX_WATCHPOINTS) /\ watchpoint_count' = 0
        /\ leaked' = leaked \cup LabelsOf(breakpoints, breakpoint_count)
                            \cup LabelsOf(watchpoints, watchpoint_count)
        /\ heap' = heap /\ memory' = memory
    BY DEF debugger_init
  <1>2. /\ Table(breakpoints', 0, MAX_BREAKPOINTS)
        /\ Table(watchpoints', 0, MAX_WATCHPOINTS)
    BY <1>1, ZeroIsTable, DebuggerAssumption
  <1>3. Owned(heap', leaked', breakpoints', 0, watchpoints', 0)
    BY <1>1, OwnedForget DEF DebugInv
  <1>4. DebugInv'
    BY <1>1, <1>2, <1>3 DEF DebugInv
  <1> QED
    BY <1>1, <1>4, BreakCleared, WatchCleared

\* debugger_cleanup leaves tables with nothing in use.
LEMMA UnlabelledIsTable ==
  ASSUME NEW T, NEW n, NEW size, Table(T, n, size)
  PROVE  Table(Unlabelled(T, n), 0, size)
  <1>1. T \in [0 .. size - 1 -> Slots] /\ size \in Nat
    BY DEF Table
  <1>2. \A i \in 0 .. size - 1 : [T[i] EXCEPT !.label = 0] \in Slots
    BY <1>1 DEF Slots
  <1>3. Unlabelled(T, n) \in [0 .. size - 1 -> Slots]
    BY <1>1, <1>2 DEF Unlabelled
  <1> QED
    BY <1>1, <1>3 DEF Table

\* debugger_cleanup.
LEMMA CleanupStep ==
  ASSUME DebugInv, debugger_cleanup
  PROVE  DebugInv' /\ BreakStep /\ WatchStep
  <1>1. /\ heap' = Rest(heap, LabelsOf(breakpoints, breakpoint_count)
                              \cup LabelsOf(watchpoints, watchpoint_count))
        /\ breakpoints' = Unlabelled(breakpoints, breakpoint_count)
        /\ watchpoints' = Unlabelled(watchpoints, watchpoint_count)
        /\ breakpoint_count' = 0 /\ watchpoint_count' = 0
        /\ leaked' = leaked /\ memory' = memory
    BY DEF debugger_cleanup, Without, Rest
  <1>2. /\ Table(breakpoints', 0, MAX_BREAKPOINTS)
        /\ Table(watchpoints', 0, MAX_WATCHPOINTS)
    BY <1>1, UnlabelledIsTable DEF DebugInv
  <1>3. Owned(heap', leaked', breakpoints', 0, watchpoints', 0)
    BY <1>1, OwnedCleanup DEF DebugInv
  <1>4. DebugInv'
    BY <1>1, <1>2, <1>3 DEF DebugInv
  <1> QED
    BY <1>1, <1>4, BreakCleared, WatchCleared

\* Steps that leave the tables and the labels alone.
LEMMA OtherStep ==
  ASSUME DebugInv, UNCHANGED tableVars, memory' \in [Space -> Value]
  PROVE  DebugInv' /\ BreakStep /\ WatchStep
  <1>1. UNCHANGED <<breakpoints, breakpoint_count, watchpoints,
                    watchpoint_count, heap, leaked>>
    BY DEF tableVars
  <1>2. BreakList' = BreakList /\ WatchList' = WatchList
    BY <1>1 DEF BreakList, WatchList
  <1>3. DebugInv'
    BY <1>1 DEF DebugInv
  <1> QED
    BY <1>2, <1>3, BreaksStay, WatchesStay

\* The start of the program.
LEMMA StartInv ==
  ASSUME DebuggerInit PROVE DebugInv /\ Breaks!ListInit /\ Watches!ListInit
  <1>1. /\ breakpoints = ZeroTable(MAX_BREAKPOINTS) /\ breakpoint_count = 0
        /\ watchpoints = ZeroTable(MAX_WATCHPOINTS) /\ watchpoint_count = 0
        /\ heap = << >> /\ leaked = {} /\ memory \in [Space -> {0}]
    BY DEF DebuggerInit
  <1>2. /\ Table(breakpoints, 0, MAX_BREAKPOINTS)
        /\ Table(watchpoints, 0, MAX_WATCHPOINTS)
    BY <1>1, ZeroIsTable, DebuggerAssumption
  <1>3. memory \in [Space -> Value]
    BY <1>1, DebuggerAssumption
  <1>4. Owned(heap, leaked, breakpoints, 0, watchpoints, 0)
    <2>1. DOMAIN heap = {} /\ 0 .. 0 - 1 = {}
      BY <1>1
    <2> QED
      BY <1>1, <2>1 DEF Owned
  <1>5. BreakList = << >> /\ WatchList = << >>
    BY <1>1 DEF BreakList, WatchList, List
  <1> QED
    BY <1>1, <1>2, <1>3, <1>4, <1>5, Mapping
    DEF DebugInv, Breaks!ListInit, Watches!ListInit

\* Every step of the debugger's host, and a step that changes nothing.
LEMMA DebuggerStep ==
  ASSUME DebugInv, [DebuggerNext]_debuggerVars
  PROVE  DebugInv' /\ BreakStep /\ WatchStep
  <1>1. memory \in [Space -> Value]
    BY DEF DebugInv
  <1>2. CASE Breaking
    BY <1>2, AddBreakStep, RemoveBreakStep, ClearBreakStep DEF Breaking
  <1>3. CASE Watching
    BY <1>3, AddWatchStep, RemoveWatchStep, ClearWatchStep DEF Watching
  <1>4. CASE Toggling
    BY <1>4, EnableBreakStep, EnableWatchStep DEF Toggling
  <1>5. ASSUME NEW addr \in Space, NEW v \in Value, Poke(addr, v)
        PROVE  DebugInv' /\ BreakStep /\ WatchStep
    <2>1. UNCHANGED tableVars /\ memory' \in [Space -> Value]
      BY <1>1, <1>5 DEF Poke
    <2> QED
      BY <2>1, OtherStep
  <1>6. CASE Checking
    <2>1. DOMAIN Name \subseteq Space
      BY DebuggerAssumption DEF Space
    <2> QED
      BY <1>5, <1>6, <2>1, CheckStep DEF Checking
  <1>7. CASE UNCHANGED tableVars /\ memory' = memory
    BY <1>1, <1>7, OtherStep
  <1>8. CASE Profiling
    BY <1>7, <1>8 DEF Profiling, profiler_record_instruction, profiler_reset
  <1>9. CASE Inspecting
    BY <1>5, <1>7, <1>9
    DEF Inspecting, debugger_set_interactive, debugger_continue
  <1>10. CASE UNCHANGED debuggerVars
    BY <1>7, <1>10 DEF debuggerVars
  <1> QED
    BY <1>2, <1>3, <1>4, <1>6, <1>8, <1>9, <1>10, InitStep, CleanupStep
    DEF DebuggerNext

----------------------------------------------------------------------------
(* What holds of the debugger *)

\* Every nonempty set of natural numbers has a least element.
LEMMA Least ==
  ASSUME NEW T \in SUBSET Nat, T # {}
  PROVE  \E x \in T : \A y \in T : x <= y
  <1> DEFINE R == OpToRel(<, Nat)
  <1>1. IsWellFoundedOn(R, Nat)
    BY NatLessThanWellFounded, Zenon
  <1>2. R = {ss \in Nat \X Nat : ss[1] < ss[2]}
    BY DEF OpToRel
  <1> HIDE DEF R
  <1>3. PICK x \in T : \A y \in T : ~ (<<y, x>> \in R)
    BY <1>1, WFMin
  <1>4. ASSUME NEW y \in T PROVE x <= y
    <2>1. x \in Nat /\ y \in Nat /\ ~ (y < x)
      BY <1>2, <1>3
    <2> QED
      BY <2>1
  <1> QED
    BY <1>4

\* Whatever the host does and in whatever order, debugger.c keeps a numbered
\* list of breakpoints, and removes and switches the one it was told to.
THEOREM BreakpointsCorrect == DebuggerSpec => ImplementsBreakpointList
  <1>1. DebuggerInit => DebugInv /\ Breaks!ListInit
    BY StartInv
  <1>2. DebugInv /\ [DebuggerNext]_debuggerVars
          => DebugInv' /\ [Breaks!ListNext]_(Listed(breakpoints, breakpoint_count))
    BY DebuggerStep DEF BreakStep
  <1>3. DebugInv /\ [DebuggerNext]_debuggerVars
          => [\A index \in 0 .. MAX_BREAKPOINTS - 1 :
                /\ debugger_remove_breakpoint(index)
                     => Breaks!RemovePoint(index + 1)
                /\ \A enabled \in {0, 1} :
                     debugger_enable_breakpoint(index, enabled)
                       => Breaks!EnablePoint(index + 1, enabled)]_debuggerVars
    BY RemoveBreakStep, EnableBreakStep
  <1> QED
    BY <1>1, <1>2, <1>3, PTL
    DEF DebuggerSpec, ImplementsBreakpointList, Breaks!ListSpec

\* So it does of watchpoints, with the value each has shown.
THEOREM WatchpointsCorrect == DebuggerSpec => ImplementsWatchpointList
  <1>1. DebuggerInit => DebugInv /\ Watches!ListInit
    BY StartInv
  <1>2. DebugInv /\ [DebuggerNext]_debuggerVars
          => DebugInv' /\ [Watches!ListNext]_(Listed(watchpoints, watchpoint_count))
    BY DebuggerStep DEF WatchStep
  <1>3. DebugInv /\ [DebuggerNext]_debuggerVars
          => [\A index \in 0 .. MAX_WATCHPOINTS - 1 :
                /\ debugger_remove_watchpoint(index)
                     => Watches!RemovePoint(index + 1)
                /\ \A enabled \in {0, 1} :
                     debugger_enable_watchpoint(index, enabled)
                       => Watches!EnablePoint(index + 1, enabled)]_debuggerVars
    BY RemoveWatchStep, EnableWatchStep
  <1> QED
    BY <1>1, <1>2, <1>3, PTL
    DEF DebuggerSpec, ImplementsWatchpointList, Watches!ListSpec

\* The invariant of the debugger.
LEMMA DebugInductive == DebuggerSpec => []DebugInv
  <1>1. DebuggerInit => DebugInv
    BY StartInv
  <1>2. DebugInv /\ [DebuggerNext]_debuggerVars => DebugInv'
    BY DebuggerStep
  <1> QED
    BY <1>1, <1>2, PTL DEF DebuggerSpec

\* No label is freed twice or lost, but for what debugger_init forgets.
THEOREM LabelsCorrect == DebuggerSpec => []LabelsOwned
  <1>1. DebugInv => LabelsOwned
    <2> SUFFICES ASSUME DebugInv PROVE LabelsOwned
      OBVIOUS
    <2> DEFINE broken  == {<<"b", i>> : i \in 0 .. breakpoint_count - 1}
               watched == {<<"w", i>> : i \in 0 .. watchpoint_count - 1}
               label(s) == IF s[1] = "b" THEN breakpoints[s[2]].label
                                         ELSE watchpoints[s[2]].label
               owners(p) == {s \in broken \cup watched : label(s) = p}
    <2>1. Owned(heap, leaked, breakpoints, breakpoint_count,
                watchpoints, watchpoint_count)
      BY DEF DebugInv
    <2>2. \A s \in broken \cup watched : label(s) \in (DOMAIN heap \ leaked) \cup {0}
      BY <2>1 DEF Owned
    <2>3. ASSUME NEW s \in broken \cup watched, NEW t \in broken \cup watched,
                 label(s) = label(t), label(s) # 0
          PROVE  s = t
      BY <2>1, <2>3 DEF Owned
    <2>4. ASSUME NEW p \in DOMAIN heap \ leaked
          PROVE  \E s \in broken \cup watched : label(s) = p
      <3>1. CASE \E i \in 0 .. breakpoint_count - 1 : breakpoints[i].label = p
        <4>1. PICK i \in 0 .. breakpoint_count - 1 : breakpoints[i].label = p
          BY <3>1
        <4>2. <<"b", i>> \in broken /\ label(<<"b", i>>) = p
          BY <4>1
        <4> QED
          BY <4>2
      <3>2. CASE \E i \in 0 .. watchpoint_count - 1 : watchpoints[i].label = p
        <4>1. PICK i \in 0 .. watchpoint_count - 1 : watchpoints[i].label = p
          BY <3>2
        <4>2. <<"w", i>> \in watched /\ label(<<"w", i>>) = p
          BY <4>1
        <4> QED
          BY <4>2
      <3> QED
        BY <2>1, <2>4, <3>1, <3>2 DEF Owned
    <2>5. 0 \notin DOMAIN heap
      BY <2>1 DEF Owned
    <2> HIDE DEF broken, watched, label
    <2>6. ASSUME NEW p \in DOMAIN heap
          PROVE  IF p \in leaked THEN owners(p) = {}
                 ELSE \E s \in owners(p) : owners(p) = {s}
      <3>1. CASE p \in leaked
        BY <2>2, <2>5, <3>1
      <3>2. CASE p \notin leaked
        <4>1. PICK s \in broken \cup watched : label(s) = p
          BY <2>4, <3>2
        <4>2. owners(p) = {s} /\ s \in owners(p)
          BY <2>3, <2>5, <4>1
        <4> QED
          BY <3>2, <4>2
      <3> QED
        BY <3>1, <3>2
    <2>7. \A s \in broken \cup watched : label(s) \in DOMAIN heap \cup {0}
      BY <2>2
    <2> QED
      BY <2>6, <2>7 DEF LabelsOwned, broken, watched, label
  <1> QED
    BY <1>1, DebugInductive, PTL

\* Slot i of a table stops a check.
Marks(T, i, type, addr) == /\ T[i].enabled # 0 /\ T[i].addr = addr
                           /\ T[i].type \in {type, "ACCESS"}

\* debugger_check_breakpoint, in the table T with n slots in use, stops if and
\* only if one of them does.
FirstMark(T, n, type, addr) ==
  LET hits == {i \in 0 .. n - 1 : Marks(T, i, type, addr)}
  IN  IF hits = {} THEN -1 ELSE CHOOSE i \in hits : \A j \in hits : i <= j

LEMMA FirstMarkIs ==
  ASSUME NEW T, NEW n \in Nat, NEW type, NEW addr
  PROVE  FirstMark(T, n, type, addr) # -1
           <=> \E i \in 0 .. n - 1 : Marks(T, i, type, addr)
  <1> DEFINE hits == {i \in 0 .. n - 1 : Marks(T, i, type, addr)}
  <1>1. hits \in SUBSET Nat
    OBVIOUS
  <1>2. FirstMark(T, n, type, addr) =
          IF hits = {} THEN -1 ELSE CHOOSE i \in hits : \A j \in hits : i <= j
    BY DEF FirstMark
  <1>3. hits # {} <=> \E i \in 0 .. n - 1 : Marks(T, i, type, addr)
    OBVIOUS
  <1> HIDE DEF hits
  <1>4. hits # {} => (CHOOSE i \in hits : \A j \in hits : i <= j) \in hits
    BY <1>1, Least
  <1>5. \A c \in Nat : c # -1
    OBVIOUS
  <1>6. CASE hits = {}
    BY <1>2, <1>3, <1>6
  <1>7. CASE hits # {}
    <2>1. FirstMark(T, n, type, addr) \in Nat
      BY <1>1, <1>2, <1>4, <1>7
    <2> QED
      BY <1>3, <1>5, <1>7, <2>1
  <1> QED
    BY <1>6, <1>7

\* What a check answers before and after a step.
LEMMA StopsIs ==
  ASSUME DebugInv, DebugInv', NEW type, NEW addr
  PROVE  /\ Stops(type, addr) <=>
              \E i \in 0 .. breakpoint_count - 1 :
                Marks(breakpoints, i, type, addr)
         /\ Stops(type, addr)' <=>
              \E i \in 0 .. breakpoint_count' - 1 :
                Marks(breakpoints', i, type, addr)
  <1>1. breakpoint_count \in Nat /\ breakpoint_count' \in Nat
    BY DEF DebugInv, Table
  <1>2. /\ Stops(type, addr) <=>
             FirstMark(breakpoints, breakpoint_count, type, addr) # -1
        /\ Stops(type, addr)' <=>
             FirstMark(breakpoints', breakpoint_count', type, addr) # -1
    BY DEF Stops, debugger_check_breakpoint, FirstMark, Marks
  <1> QED
    BY <1>1, <1>2, FirstMarkIs

\* One step: which calls make a check at addr stop, and which no longer.
LEMMA CheckAnswers ==
  ASSUME DebugInv, DebugInv', [DebuggerNext]_debuggerVars, NEW type, NEW addr
  PROVE  /\ ~ Stops(type, addr) /\ Stops(type, addr)' =>
              \/ \E t \in Types : debugger_add_breakpoint(t, addr)
              \/ \E index \in 0 .. MAX_BREAKPOINTS - 1 :
                   LiesAt(index, addr) /\ debugger_enable_breakpoint(index, 1)
         /\ Stops(type, addr) /\ ~ Stops(type, addr)' =>
              \/ debugger_clear_breakpoints \/ debugger_cleanup \/ debugger_init
              \/ \E index \in 0 .. MAX_BREAKPOINTS - 1 :
                   /\ LiesAt(index, addr)
                   /\ \/ debugger_remove_breakpoint(index)
                      \/ debugger_enable_breakpoint(index, 0)
  <1> DEFINE n == breakpoint_count
             T == breakpoints
             Before == \E i \in 0 .. n - 1 : Marks(T, i, type, addr)
             After == \E i \in 0 .. n' - 1 : Marks(T', i, type, addr)
             Starts == \/ \E t \in Types : debugger_add_breakpoint(t, addr)
                       \/ \E index \in 0 .. MAX_BREAKPOINTS - 1 :
                            /\ LiesAt(index, addr)
                            /\ debugger_enable_breakpoint(index, 1)
             Ends == \/ debugger_clear_breakpoints \/ debugger_cleanup
                     \/ debugger_init
                     \/ \E index \in 0 .. MAX_BREAKPOINTS - 1 :
                          /\ LiesAt(index, addr)
                          /\ \/ debugger_remove_breakpoint(index)
                             \/ debugger_enable_breakpoint(index, 0)
  <1>1. (Stops(type, addr) <=> Before) /\ (Stops(type, addr)' <=> After)
    BY StopsIs
  <1>2. /\ n \in Nat /\ n <= MAX_BREAKPOINTS /\ MAX_BREAKPOINTS \in Nat
        /\ T \in [0 .. MAX_BREAKPOINTS - 1 -> Slots]
    BY DEF DebugInv, Table
  <1> SUFFICES (~ Before /\ After => Starts) /\ (Before /\ ~ After => Ends)
    BY <1>1
  <1>3. CASE UNCHANGED <<breakpoints, breakpoint_count>>
    BY <1>3
  <1>4. CASE debugger_clear_breakpoints \/ debugger_cleanup \/ debugger_init
    <2>1. n' = 0
      BY <1>4 DEF debugger_clear_breakpoints, debugger_cleanup, debugger_init
    <2>2. ~ After
      BY <2>1
    <2> QED
      BY <1>4, <2>2
  <1>5. ASSUME NEW t \in Types, NEW a \in DOMAIN Name, debugger_add_breakpoint(t, a)
        PROVE  (~ Before /\ After => Starts) /\ (Before /\ ~ After => Ends)
    <2>1. /\ n < MAX_BREAKPOINTS /\ n' = n + 1
          /\ \E p : T' = [T EXCEPT ![n] =
                [enabled |-> 1, type |-> t, addr |-> a, old_value |-> 0,
                 label |-> p]]
      BY <1>5 DEF debugger_add_breakpoint
    <2>2. T'[n].addr = a /\ \A i \in 0 .. n - 1 : T'[i] = T[i]
      BY <1>2, <2>1
    <2>3. Before => After
      BY <1>2, <2>1, <2>2 DEF Marks
    <2>4. ASSUME After, ~ Before PROVE a = addr
      <3>1. PICK i \in 0 .. n : Marks(T', i, type, addr)
        BY <1>2, <2>1, <2>4
      <3>2. i \notin 0 .. n - 1
        BY <2>2, <2>4, <3>1 DEF Marks
      <3>3. i = n
        BY <1>2, <3>1, <3>2
      <3> QED
        BY <2>2, <3>1, <3>3 DEF Marks
    <2> QED
      BY <1>5, <2>3, <2>4
  <1>6. ASSUME NEW index \in 0 .. MAX_BREAKPOINTS - 1,
               debugger_remove_breakpoint(index)
        PROVE  (~ Before /\ After => Starts) /\ (Before /\ ~ After => Ends)
    <2>1. /\ index < n /\ n' = n - 1 /\ index \in Nat
          /\ \A i \in 0 .. n - 2 : T'[i] = IF index <= i THEN T[i + 1] ELSE T[i]
      <3>1. index < n /\ n' = n - 1 /\ T' = ShiftDown(T, n, index)
        BY <1>6 DEF debugger_remove_breakpoint
      <3> QED
        BY <1>2, <3>1 DEF ShiftDown
    <2>2. After => Before
      <3>1. ASSUME NEW i \in 0 .. n' - 1, Marks(T', i, type, addr) PROVE Before
        <4>1. i \in 0 .. n - 2 /\ i \in 0 .. n - 1 /\ i + 1 \in 0 .. n - 1
          BY <1>2, <2>1
        <4> QED
          BY <2>1, <3>1, <4>1 DEF Marks
      <3> QED
        BY <3>1
    <2>3. ASSUME NEW i \in 0 .. n - 1, Marks(T, i, type, addr), ~ After
          PROVE  i = index
      <3>1. CASE i < index
        <4>1. i \in 0 .. n - 2 /\ i \in 0 .. n' - 1 /\ ~ index <= i
          BY <1>2, <2>1, <3>1
        <4> QED
          BY <2>1, <2>3, <4>1 DEF Marks
      <3>2. CASE i > index
        <4>1. /\ i - 1 \in 0 .. n - 2 /\ i - 1 \in 0 .. n' - 1
              /\ index <= i - 1 /\ (i - 1) + 1 = i
          BY <1>2, <2>1, <3>2
        <4>2. Marks(T', i - 1, type, addr)
          BY <2>1, <2>3, <4>1 DEF Marks
        <4> QED
          BY <2>3, <4>1, <4>2
      <3> QED
        BY <2>1, <3>1, <3>2
    <2>4. ASSUME Before, ~ After PROVE LiesAt(index, addr)
      <3>1. PICK i \in 0 .. n - 1 : Marks(T, i, type, addr)
        BY <2>4
      <3>2. i = index
        BY <2>3, <2>4, <3>1
      <3> QED
        BY <2>1, <3>1, <3>2 DEF LiesAt, Marks
    <2> QED
      BY <1>6, <2>2, <2>4
  <1>7. ASSUME NEW index \in 0 .. MAX_BREAKPOINTS - 1, NEW enabled \in {0, 1},
               debugger_enable_breakpoint(index, enabled)
        PROVE  (~ Before /\ After => Starts) /\ (Before /\ ~ After => Ends)
    <2>1. /\ index < n /\ n' = n
          /\ T' = [T EXCEPT ![index].enabled = enabled]
      BY <1>7 DEF debugger_enable_breakpoint
    <2>2. /\ T'[index].enabled = enabled /\ T'[index].addr = T[index].addr
          /\ T'[index].type = T[index].type
          /\ \A i \in 0 .. n - 1 : i # index => T'[i] = T[i]
      BY <1>2, <2>1 DEF Slots
    <2>3. ASSUME ~ Before, After PROVE LiesAt(index, addr) /\ enabled = 1
      <3>1. PICK i \in 0 .. n - 1 : Marks(T', i, type, addr)
        BY <2>1, <2>3
      <3>2. i = index
        BY <2>2, <2>3, <3>1 DEF Marks
      <3> QED
        BY <2>1, <2>2, <3>1, <3>2 DEF LiesAt, Marks
    <2>4. ASSUME Before, ~ After PROVE LiesAt(index, addr) /\ enabled = 0
      <3>1. PICK i \in 0 .. n - 1 : Marks(T, i, type, addr)
        BY <2>4
      <3>2. ~ Marks(T', i, type, addr)
        BY <2>1, <2>4, <3>1
      <3>3. i = index
        BY <2>2, <3>1, <3>2 DEF Marks
      <3> QED
        BY <2>1, <2>2, <3>1, <3>2, <3>3 DEF LiesAt, Marks
    <2> QED
      BY <1>7, <2>3, <2>4
  <1>8. CASE Breaking
    BY <1>4, <1>5, <1>6, <1>8 DEF Breaking
  <1>9. CASE Toggling
    <2>1. ASSUME NEW index \in 0 .. MAX_WATCHPOINTS - 1, NEW enabled \in {0, 1},
                 debugger_enable_watchpoint(index, enabled)
          PROVE  UNCHANGED <<breakpoints, breakpoint_count>>
      BY <2>1 DEF debugger_enable_watchpoint, Untouched_by_watchpoints
    <2> QED
      BY <1>3, <1>7, <1>9, <2>1 DEF Toggling
  <1>10. CASE Watching \/ Checking \/ Profiling \/ Inspecting
    <2>1. UNCHANGED <<breakpoints, breakpoint_count>>
      BY <1>10 DEF Watching, Checking, Profiling, Inspecting,
                   debugger_add_watchpoint, debugger_remove_watchpoint,
                   debugger_clear_watchpoints, debugger_check_watchpoints, Poke,
                   profiler_record_instruction, profiler_reset,
                   debugger_set_interactive, debugger_continue,
                   Untouched_by_watchpoints, tableVars
    <2> QED
      BY <1>3, <2>1
  <1>11. CASE UNCHANGED debuggerVars
    BY <1>3, <1>11 DEF debuggerVars, tableVars
  <1> QED
    BY <1>4, <1>8, <1>9, <1>10, <1>11 DEF DebuggerNext

\* What debugger_check_breakpoint answers at an address changes only by a call
\* about a point at that address, whatever moves through the slots.
THEOREM ChecksCorrect == DebuggerSpec => ChecksFollowCalls
  <1>1. DebuggerInit => DebugInv
    BY StartInv
  <1>2. DebugInv /\ [DebuggerNext]_debuggerVars => DebugInv'
    BY DebuggerStep
  <1>3. DebugInv /\ DebugInv' /\ [DebuggerNext]_debuggerVars
          => [\A type \in {"EXEC", "READ", "WRITE"}, addr \in Space :
              /\ ~ Stops(type, addr) /\ Stops(type, addr)' =>
                   \/ \E t \in Types : debugger_add_breakpoint(t, addr)
                   \/ \E index \in 0 .. MAX_BREAKPOINTS - 1 :
                        LiesAt(index, addr) /\ debugger_enable_breakpoint(index, 1)
              /\ Stops(type, addr) /\ ~ Stops(type, addr)' =>
                   \/ debugger_clear_breakpoints \/ debugger_cleanup \/ debugger_init
                   \/ \E index \in 0 .. MAX_BREAKPOINTS - 1 :
                        /\ LiesAt(index, addr)
                        /\ \/ debugger_remove_breakpoint(index)
                           \/ debugger_enable_breakpoint(index, 0)]_debuggerVars
    BY CheckAnswers
  <1> QED
    BY <1>1, <1>2, <1>3, PTL DEF DebuggerSpec, ChecksFollowCalls

\* debugger_search_memory finds the occurrences of a pattern of any length
\* up to end + 1, in any memory.
LEMMA SearchExact ==
  ASSUME NEW start \in Space, NEW end \in Space, NEW pattern,
         NEW n \in Nat \ {0}, Len(pattern) = n, n <= end + 1
  PROVE  debugger_search_memory(memory, start, end, pattern)
           = Occurrences(start, end, pattern)
  <1>1. /\ SPACE \in Nat \ {0} /\ UINT32 \in Nat /\ UINT32 >= 2 * SPACE
        /\ start \in 0 .. SPACE - 1 /\ end \in 0 .. SPACE - 1
    BY InspectionAssumption DEF Space
  <1>2. SearchBound(end, n) = end - n + 1
    <2>1. end - n + 1 \in 0 .. UINT32 - 1 /\ UINT32 \in Nat \ {0}
      BY <1>1
    <2> QED
      BY <2>1 DEF SearchBound
  <1>3. \A i : i \in start .. SPACE - 1 /\ i <= end - n + 1
              <=> i \in start .. end /\ i + n - 1 <= end
    BY <1>1
  <1> QED
    BY <1>2, <1>3 DEF debugger_search_memory, Occurrences

\* So a search prints all of them and nothing else, whatever the CPU has
\* left in memory.
THEOREM SearchCorrect == DebuggerSpec => []SearchIsExact
  <1>1. SearchIsExact
    <2> SUFFICES ASSUME NEW start \in Reads, NEW end \in Reads, NEW n \in 1 .. 3,
                        NEW pattern \in [1 .. n -> Value], n <= end + 1
                 PROVE  debugger_search_memory(memory, start, end, pattern)
                          = Occurrences(start, end, pattern)
      BY DEF SearchIsExact
    <2>1. start \in Space /\ end \in Space
      BY DEF Reads
    <2>2. n \in Nat \ {0} /\ Len(pattern) = n
      OBVIOUS
    <2> QED
      BY <2>1, <2>2, SearchExact
  <1> QED
    BY <1>1, PTL

----------------------------------------------------------------------------
(* The ranking of the profiler *)

\* A loop of n turns as a function: turn k makes f[k][v] of the value v that
\* the turn before left.
LEMMA Loop ==
  ASSUME NEW S, NEW a \in S, NEW n \in Nat, NEW f \in [1 .. n -> [S -> S]]
  PROVE  \E t \in [0 .. n -> S] :
           t[0] = a /\ \A k \in 1 .. n : t[k] = f[k][t[k - 1]]
  <1> DEFINE Done(m) == \E t \in [0 .. m -> S] :
               t[0] = a /\ \A k \in 1 .. m : t[k] = f[k][t[k - 1]]
             Bad == {m \in 0 .. n : ~ Done(m)}
  <1> SUFFICES ASSUME ~ Done(n) PROVE FALSE
    OBVIOUS
  <1>1. PICK m \in Bad : \A y \in Bad : m <= y
    <2>1. n \in Bad
      OBVIOUS
    <2> HIDE DEF Bad
    <2>2. Bad \in SUBSET Nat
      BY DEF Bad
    <2> QED
      BY <2>1, <2>2, Least
  <1>2. m \in 0 .. n /\ ~ Done(m)
    BY <1>1
  <1>3. m # 0
    <2> DEFINE t == [k \in 0 .. 0 |-> a]
    <2>1. t \in [0 .. 0 -> S] /\ t[0] = a /\ \A k \in 1 .. 0 : t[k] = f[k][t[k - 1]]
      OBVIOUS
    <2>2. Done(0)
      BY <2>1
    <2> HIDE DEF Done
    <2> QED
      BY <1>2, <2>2
  <1>4. m \in 1 .. n /\ m - 1 \in 0 .. n /\ m - 1 \notin Bad
    <2> HIDE DEF Bad, Done
    <2> QED
      BY <1>1, <1>2, <1>3
  <1>5. Done(m - 1)
    <2> HIDE DEF Done
    <2> QED
      BY <1>4
  <1>6. PICK t \in [0 .. m - 1 -> S] :
          t[0] = a /\ \A k \in 1 .. m - 1 : t[k] = f[k][t[k - 1]]
    BY <1>5
  <1> DEFINE u == [k \in 0 .. m |-> IF k < m THEN t[k] ELSE f[m][t[m - 1]]]
  <1>7. f[m][t[m - 1]] \in S
    BY <1>4, <1>6
  <1>8. u \in [0 .. m -> S] /\ u[0] = a
    BY <1>4, <1>6, <1>7
  <1>9. ASSUME NEW k \in 1 .. m PROVE u[k] = f[k][u[k - 1]]
    BY <1>4, <1>6, <1>9
  <1> HIDE DEF u
  <1>10. Done(m)
    BY <1>8, <1>9
  <1> QED
    BY <1>2, <1>10

Entries == [addr : Space, count : Nat]

\* list has each address of X once, with its count.
Ranks(list, counts, X) ==
  /\ list \in Seq(Entries)
  /\ \A p \in DOMAIN list : /\ list[p].addr \in X
                            /\ list[p].count = counts[list[p].addr]
  /\ \A p, q \in DOMAIN list : list[p].addr = list[q].addr => p = q
  /\ \A a \in X : \E p \in DOMAIN list : list[p].addr = a

\* Entry p is not exceeded by the ones behind it as far as q.
Leads(list, p, q) == \A m \in p .. q : list[m].count <= list[p].count

\* The entries before i are in their places.
Settled(list, i) == \A p \in 1 .. i - 1 : Leads(list, p, Len(list))

\* An exchange keeps the addresses, each once.
LEMMA ExchangeRanks ==
  ASSUME NEW list, NEW counts, NEW X, Ranks(list, counts, X),
         NEW i \in 1 .. Len(list), NEW j \in 1 .. Len(list)
  PROVE  /\ Ranks(Exchange(list, i, j), counts, X)
         /\ Len(Exchange(list, i, j)) = Len(list)
  <1> DEFINE new == Exchange(list, i, j)
  <1>1. list \in Seq(Entries) /\ DOMAIN list = 1 .. Len(list) /\ Len(list) \in Nat
    BY DEF Ranks
  <1>2. CASE new = list
    BY <1>2
  <1>3. CASE new # list
    <2>1. new = [list EXCEPT ![i] = list[j], ![j] = list[i]]
      BY <1>3 DEF Exchange
    <2>2. /\ DOMAIN new = 1 .. Len(list)
          /\ new[i] = list[j] /\ new[j] = list[i]
          /\ \A p \in 1 .. Len(list) : p # i /\ p # j => new[p] = list[p]
      BY <1>1, <2>1
    <2>3. new \in [1 .. Len(list) -> Entries]
      BY <1>1, <2>1
    <2>4. new \in Seq(Entries) /\ Len(new) = Len(list)
      BY <1>1, <2>3
    <2> HIDE DEF new
    <2>5. ASSUME NEW p \in DOMAIN new
          PROVE  new[p].addr \in X /\ new[p].count = counts[new[p].addr]
      BY <1>1, <2>2 DEF Ranks
    <2>6. ASSUME NEW p \in DOMAIN new, NEW q \in DOMAIN new,
                 new[p].addr = new[q].addr
          PROVE  p = q
      BY <1>1, <2>2, <2>6 DEF Ranks
    <2>7. ASSUME NEW a \in X PROVE \E p \in DOMAIN new : new[p].addr = a
      <3>1. PICK p \in 1 .. Len(list) : list[p].addr = a
        BY <1>1 DEF Ranks
      <3> QED
        BY <2>2, <3>1
    <2> QED
      BY <2>4, <2>5, <2>6, <2>7 DEF Ranks, new
  <1> QED
    BY <1>2, <1>3

\* An exchange with the next entry makes entry i lead one more, and leaves
\* those before it in their places.
LEMMA ExchangeLeads ==
  ASSUME NEW list \in Seq(Entries), NEW i \in 1 .. Len(list),
         NEW j \in i + 1 .. Len(list), Settled(list, i), Leads(list, i, j - 1)
  PROVE  /\ Settled(Exchange(list, i, j), i)
         /\ Leads(Exchange(list, i, j), i, j)
  <1> DEFINE new == Exchange(list, i, j)
             n == Len(list)
  <1>1. /\ DOMAIN list = 1 .. n /\ n \in Nat
        /\ \A p \in 1 .. n : list[p].count \in Nat
    <2>1. DOMAIN list = 1 .. n /\ n \in Nat /\ \A p \in 1 .. n : list[p] \in Entries
      OBVIOUS
    <2> QED
      BY <2>1 DEF Entries
  <1>2. i \in 1 .. n /\ j \in 1 .. n /\ i < j
    BY <1>1
  <1>3. CASE list[j].count > list[i].count
    <2>1. new = [list EXCEPT ![i] = list[j], ![j] = list[i]]
      BY <1>3 DEF Exchange
    <2>2. /\ DOMAIN new = 1 .. n
          /\ new[i] = list[j] /\ new[j] = list[i]
          /\ \A p \in 1 .. n : p # i /\ p # j => new[p] = list[p]
      BY <1>1, <1>2, <2>1
    <2>3. Len(new) = n
      BY <1>1, <2>1
    <2> HIDE DEF new, n
    <2>4. ASSUME NEW p \in 1 .. i - 1, NEW m \in p .. n
          PROVE  new[m].count <= new[p].count
      <3>1. new[p] = list[p] /\ p \in 1 .. n /\ m \in 1 .. n
        BY <1>1, <1>2, <2>2
      <3>2. \A q \in p .. n : list[q].count <= list[p].count
        BY DEF Settled, Leads, n
      <3>3. \E q \in p .. n : new[m] = list[q]
        BY <1>1, <1>2, <2>2
      <3> QED
        BY <3>1, <3>2, <3>3
    <2>5. ASSUME NEW m \in i .. j PROVE new[m].count <= new[i].count
      <3>1. CASE m \in i + 1 .. j - 1
        <4>1. new[m] = list[m] /\ list[m].count <= list[i].count /\ m \in 1 .. n
          BY <1>1, <1>2, <2>2, <3>1 DEF Leads
        <4> QED
          BY <1>1, <1>2, <1>3, <2>2, <4>1
      <3>2. CASE m = i \/ m = j
        BY <1>1, <1>2, <1>3, <2>2, <3>2
      <3> QED
        BY <1>1, <1>2, <3>1, <3>2
    <2> QED
      BY <2>3, <2>4, <2>5 DEF Settled, Leads, new
  <1>4. CASE ~ (list[j].count > list[i].count)
    <2>1. new = list
      BY <1>4 DEF Exchange
    <2>2. ASSUME NEW m \in i .. j PROVE list[m].count <= list[i].count
      <3>1. CASE m = j
        BY <1>1, <1>2, <1>4, <3>1
      <3>2. CASE m \in i .. j - 1
        BY <3>2 DEF Leads
      <3> QED
        BY <1>1, <1>2, <3>1, <3>2
    <2> QED
      BY <2>1, <2>2 DEF Leads
  <1> QED
    BY <1>3, <1>4

\* A pass over the rest of the list puts entry i in its place, if those before
\* it are in theirs.
LEMMA PassSettles ==
  ASSUME NEW list, NEW counts, NEW X, Ranks(list, counts, X),
         NEW i \in 1 .. Len(list)
  PROVE  /\ Ranks(Pass(list, i), counts, X) /\ Len(Pass(list, i)) = Len(list)
         /\ Settled(list, i) => Settled(Pass(list, i), i + 1)
  <1> DEFINE n == Len(list)
             S == {l \in Seq(Entries) : Ranks(l, counts, X) /\ Len(l) = n}
             f == [k \in 1 .. n - i |-> [l \in S |-> Exchange(l, i, i + k)]]
             Body(t) == [k \in 0 .. n - i |->
                           IF k = 0 THEN list ELSE Exchange(t[k - 1], i, i + k)]
             h == CHOOSE t : t = Body(t)
  <1>1. list \in S /\ n \in Nat /\ n - i \in Nat
    BY DEF Ranks
  <1>2. ASSUME NEW l \in S, NEW k \in 1 .. n - i
        PROVE  Exchange(l, i, i + k) \in S
    <2>1. Ranks(l, counts, X) /\ i \in 1 .. Len(l) /\ i + k \in 1 .. Len(l)
      BY <1>1
    <2>2. Ranks(Exchange(l, i, i + k), counts, X) /\ Len(Exchange(l, i, i + k)) = Len(l)
      BY <2>1, ExchangeRanks
    <2> QED
      BY <2>2 DEF Ranks
  <1>3. f \in [1 .. n - i -> [S -> S]]
    <2> HIDE DEF S
    <2> QED
      BY <1>2
  <1> HIDE DEF S
  <1>4. PICK t \in [0 .. n - i -> S] :
          t[0] = list /\ \A k \in 1 .. n - i : t[k] = f[k][t[k - 1]]
    <2> DEFINE m == n - i
    <2>1. m \in Nat /\ f \in [1 .. m -> [S -> S]] /\ list \in S
      BY <1>1, <1>3
    <2> HIDE DEF f, m
    <2>2. \E t \in [0 .. m -> S] :
            t[0] = list /\ \A k \in 1 .. m : t[k] = f[k][t[k - 1]]
      BY <2>1, Loop
    <2> QED
      BY <2>2 DEF m
  <1>5. \E u : u = Body(u)
    <2>1. ASSUME NEW k \in 1 .. n - i PROVE t[k] = Exchange(t[k - 1], i, i + k)
      <3>1. k - 1 \in 0 .. n - i
        BY <1>1
      <3>2. t[k - 1] \in S /\ t[k] = f[k][t[k - 1]]
        BY <1>4, <3>1
      <3> QED
        BY <3>2
    <2>2. t = Body(t)
      BY <1>1, <1>4, <2>1
    <2> QED
      BY <2>2
  <1>6. h = Body(h)
    <2> HIDE DEF Body
    <2> QED
      BY <1>5
  <1>7. Pass(list, i) = h[n - i]
    BY DEF Pass
  <1> HIDE DEF h
  <1>8. h[0] = list /\ \A k \in 1 .. n - i : h[k] = Exchange(h[k - 1], i, i + k)
    BY <1>1, <1>6
  <1> DEFINE Good(k) == /\ h[k] \in S
                        /\ Settled(list, i) =>
                             Settled(h[k], i) /\ Leads(h[k], i, i + k)
             Bad == {k \in 0 .. n - i : ~ Good(k)}
  <1>9. Good(n - i)
    <2> SUFFICES ASSUME ~ Good(n - i) PROVE FALSE
      OBVIOUS
    <2>1. PICK k \in Bad : \A y \in Bad : k <= y
      <3>1. n - i \in Bad
        BY <1>1
      <3> HIDE DEF Bad
      <3>2. Bad \in SUBSET Nat
        BY DEF Bad
      <3> QED
        BY <3>1, <3>2, Least
    <2>2. k \in 0 .. n - i /\ ~ Good(k)
      BY <2>1
    <2>3. k # 0
      <3>1. Leads(list, i, i + 0)
        <4>1. list \in Seq(Entries) /\ i .. i + 0 = {i}
          BY DEF Ranks
        <4>2. list[i].count <= list[i].count
          <5>1. list[i] \in Entries
            BY <4>1
          <5> QED
            BY <5>1 DEF Entries
        <4> QED
          BY <4>1, <4>2 DEF Leads
      <3>2. Good(0)
        BY <1>1, <1>8, <3>1
      <3> HIDE DEF Good
      <3> QED
        BY <2>2, <3>2
    <2>4. k \in 1 .. n - i /\ k - 1 \in 0 .. n - i /\ k - 1 \notin Bad
      BY <1>1, <2>1, <2>2, <2>3
    <2>5. Good(k - 1)
      <3> HIDE DEF Good
      <3> QED
        BY <2>4
    <2>6. h[k] = Exchange(h[k - 1], i, i + k) /\ h[k] \in S
      BY <1>2, <1>8, <2>4, <2>5
    <2>7. /\ h[k - 1] \in Seq(Entries) /\ i \in 1 .. Len(h[k - 1])
          /\ i + k \in i + 1 .. Len(h[k - 1])
          /\ Settled(list, i) => Leads(h[k - 1], i, (i + k) - 1)
      <3>1. (i + k) - 1 = i + (k - 1)
        BY <2>4
      <3>2. h[k - 1] \in Seq(Entries) /\ Len(h[k - 1]) = n
        BY <2>5 DEF S
      <3> QED
        BY <1>1, <2>4, <2>5, <3>1, <3>2
    <2>8. Settled(list, i) => Settled(h[k], i) /\ Leads(h[k], i, i + k)
      BY <2>5, <2>6, <2>7, ExchangeLeads
    <2>9. Good(k)
      BY <2>6, <2>8
    <2> HIDE DEF Good
    <2> QED
      BY <2>2, <2>9
  <1>10. ASSUME Settled(list, i) PROVE Settled(Pass(list, i), i + 1)
    <2>1. Settled(h[n - i], i) /\ Leads(h[n - i], i, n) /\ Len(h[n - i]) = n
      <3>1. i + (n - i) = n
        BY <1>1
      <3> QED
        BY <1>9, <1>10, <3>1 DEF S
    <2>2. 1 .. (i + 1) - 1 = (1 .. i - 1) \cup {i}
      OBVIOUS
    <2> QED
      BY <1>7, <2>1, <2>2 DEF Settled
  <1> QED
    BY <1>7, <1>9, <1>10 DEF S

\* The list has as many entries as there are addresses.
LEMMA RanksCount ==
  ASSUME NEW list, NEW counts, NEW X, Ranks(list, counts, X)
  PROVE  Len(list) \in Nat /\ Cardinality(X) = Len(list)
  <1> DEFINE n == Len(list)
             f == [p \in 1 .. n |-> list[p].addr]
  <1>1. n \in Nat /\ DOMAIN list = 1 .. n
    BY DEF Ranks
  <1>2. f \in Bijection(1 .. n, X)
    <2>1. f \in [1 .. n -> X]
      BY <1>1 DEF Ranks
    <2>2. \A p, q \in 1 .. n : f[p] = f[q] => p = q
      BY <1>1 DEF Ranks
    <2>3. \A a \in X : \E p \in 1 .. n : f[p] = a
      BY <1>1 DEF Ranks
    <2> HIDE DEF f, n
    <2>4. f \in Injection(1 .. n, X)
      BY <2>1, <2>2 DEF Injection, IsInjective
    <2>5. f \in Surjection(1 .. n, X)
      BY <2>1, <2>3 DEF Surjection
    <2> QED
      BY <2>4, <2>5 DEF Bijection
  <1> HIDE DEF n
  <1>3. Cardinality(1 .. n) = n /\ IsFiniteSet(1 .. n)
    <2>1. /\ IsFiniteSet(1 .. n)
          /\ Cardinality(1 .. n) = IF 1 > n THEN 0 ELSE n - 1 + 1
      BY <1>1, FS_Interval
    <2> QED
      BY <1>1, <2>1
  <1>4. ExistsBijection(1 .. n, X)
    BY <1>2 DEF ExistsBijection
  <1> QED
    BY <1>1, <1>3, <1>4, FS_Bijection DEF n

\* The addresses below k that were executed.
Active(counts, k) == {a \in 0 .. k - 1 : counts[a] > 0}

\* The two scans of the counts list the active addresses.
LEMMA ActiveRanks ==
  ASSUME NEW counts \in [Space -> Nat]
  PROVE  Ranks(ActiveAddresses(counts), counts, Active(counts, SPACE))
  <1> DEFINE S == Seq(Entries)
             Turn(l, k) == IF counts[k - 1] > 0
                           THEN Append(l, [addr |-> k - 1, count |-> counts[k - 1]])
                           ELSE l
             f == [k \in 1 .. SPACE |-> [l \in S |-> Turn(l, k)]]
             none == << >>
             Body(t) == [k \in 0 .. SPACE |->
                           IF k = 0 THEN none ELSE Turn(t[k - 1], k)]
             h == CHOOSE t : t = Body(t)
  <1>1. SPACE \in Nat \ {0}
    BY InspectionAssumption
  <1>2. ASSUME NEW k \in 1 .. SPACE
        PROVE  /\ k - 1 \in Space /\ counts[k - 1] \in Nat
               /\ [addr |-> k - 1, count |-> counts[k - 1]] \in Entries
    BY <1>1 DEF Space, Entries
  <1>3. ASSUME NEW l \in S, NEW k \in 1 .. SPACE PROVE Turn(l, k) \in S
    BY <1>2
  <1>4. none \in S
    OBVIOUS
  <1>5. f \in [1 .. SPACE -> [S -> S]]
    <2> HIDE DEF S, Turn
    <2> QED
      BY <1>3
  <1> HIDE DEF S, none
  <1>6. PICK t \in [0 .. SPACE -> S] :
          t[0] = none /\ \A k \in 1 .. SPACE : t[k] = f[k][t[k - 1]]
    <2>1. SPACE \in Nat
      BY <1>1
    <2> HIDE DEF f
    <2> QED
      BY <1>4, <1>5, <2>1, Loop
  <1>7. \E u : u = Body(u)
    <2>1. ASSUME NEW k \in 1 .. SPACE PROVE t[k] = Turn(t[k - 1], k)
      <3>1. k - 1 \in 0 .. SPACE
        BY <1>1
      <3>2. t[k - 1] \in S /\ t[k] = f[k][t[k - 1]]
        BY <1>6, <3>1
      <3> HIDE DEF Turn
      <3> QED
        BY <3>2
    <2> HIDE DEF Turn
    <2>2. t = Body(t)
      BY <1>1, <1>6, <2>1
    <2> QED
      BY <2>2
  <1>8. h = Body(h)
    <2> HIDE DEF Body
    <2> QED
      BY <1>7
  <1>9. ActiveAddresses(counts) = h[SPACE]
    BY DEF ActiveAddresses, none
  <1> HIDE DEF h
  <1>10. h[0] = none /\ \A k \in 1 .. SPACE : h[k] = Turn(h[k - 1], k)
    <2> HIDE DEF Turn
    <2>1. \A k \in 0 .. SPACE : h[k] = IF k = 0 THEN none ELSE Turn(h[k - 1], k)
      BY <1>8, Zenon
    <2>2. 0 \in 0 .. SPACE /\ \A k \in 1 .. SPACE : k \in 0 .. SPACE /\ k # 0
      BY <1>1
    <2> QED
      BY <2>1, <2>2
  <1> DEFINE Good(k) == Ranks(h[k], counts, Active(counts, k))
             Bad == {k \in 0 .. SPACE : ~ Good(k)}
  <1>11. Good(SPACE)
    <2> SUFFICES ASSUME ~ Good(SPACE) PROVE FALSE
      OBVIOUS
    <2>1. PICK k \in Bad : \A y \in Bad : k <= y
      <3>1. SPACE \in Bad
        BY <1>1
      <3> HIDE DEF Bad
      <3>2. Bad \in SUBSET Nat
        BY DEF Bad
      <3> QED
        BY <3>1, <3>2, Least
    <2>2. k \in 0 .. SPACE /\ ~ Good(k)
      BY <2>1
    <2>3. k # 0
      <3>1. Good(0)
        <4>1. Active(counts, 0) = {}
          BY DEF Active
        <4> QED
          BY <1>10, <4>1 DEF Ranks, none
      <3> HIDE DEF Good
      <3> QED
        BY <2>2, <3>1
    <2>4. k \in 1 .. SPACE /\ k - 1 \in 0 .. SPACE /\ k - 1 \notin Bad
      <3> HIDE DEF Bad, Good
      <3> QED
        BY <1>1, <2>1, <2>2, <2>3
    <2>5. Good(k - 1)
      <3> HIDE DEF Good
      <3> QED
        BY <2>4
    <2> DEFINE old == h[k - 1]
               e   == [addr |-> k - 1, count |-> counts[k - 1]]
    <2>6. h[k] = IF counts[k - 1] > 0 THEN Append(old, e) ELSE old
      BY <1>10, <2>4
    <2>7. Ranks(old, counts, Active(counts, k - 1))
      BY <2>5
    <2>8. e \in Entries /\ e.addr = k - 1 /\ e.count = counts[k - 1] /\ counts[k - 1] \in Nat
      BY <1>2, <2>4
    <2> HIDE DEF old, e
    <2>9. CASE counts[k - 1] > 0
      <3>1. Active(counts, k) = Active(counts, k - 1) \cup {k - 1}
        BY <1>1, <2>4, <2>9 DEF Active
      <3>2. k - 1 \notin Active(counts, k - 1)
        BY <2>4 DEF Active
      <3>3. h[k] = Append(old, e) /\ old \in Seq(Entries)
        BY <2>6, <2>7, <2>9 DEF Ranks
      <3>4. /\ h[k] \in Seq(Entries)
            /\ DOMAIN old = 1 .. Len(old) /\ Len(old) \in Nat
            /\ DOMAIN h[k] = 1 .. Len(old) + 1
            /\ \A p \in 1 .. Len(old) : h[k][p] = old[p]
            /\ h[k][Len(old) + 1] = e
        BY <2>8, <3>3
      <3>5. ASSUME NEW p \in DOMAIN h[k]
            PROVE  /\ h[k][p].addr \in Active(counts, k)
                   /\ h[k][p].count = counts[h[k][p].addr]
        <4>1. CASE p \in 1 .. Len(old)
          BY <2>7, <3>1, <3>4, <4>1 DEF Ranks
        <4>2. CASE p = Len(old) + 1
          BY <2>8, <3>1, <3>4, <4>2
        <4> QED
          BY <3>4, <4>1, <4>2
      <3>6. ASSUME NEW p \in DOMAIN h[k], NEW q \in DOMAIN h[k],
                   h[k][p].addr = h[k][q].addr
            PROVE  p = q
        <4>1. ASSUME NEW m \in 1 .. Len(old) PROVE h[k][m].addr # k - 1
          <5>1. old[m].addr \in Active(counts, k - 1)
            BY <2>7, <3>4 DEF Ranks
          <5> QED
            BY <3>2, <3>4, <5>1
        <4>2. CASE p \in 1 .. Len(old) /\ q \in 1 .. Len(old)
          BY <2>7, <3>4, <3>6, <4>2 DEF Ranks
        <4> QED
          BY <2>8, <3>4, <3>6, <4>1, <4>2
      <3>7. ASSUME NEW a \in Active(counts, k)
            PROVE  \E p \in DOMAIN h[k] : h[k][p].addr = a
        <4>1. CASE a = k - 1
          BY <2>8, <3>4, <4>1
        <4>2. CASE a \in Active(counts, k - 1)
          <5>1. PICK p \in DOMAIN old : old[p].addr = a
            BY <2>7, <4>2 DEF Ranks
          <5> QED
            BY <3>4, <5>1
        <4> QED
          BY <3>1, <4>1, <4>2
      <3> QED
        BY <2>2, <3>4, <3>5, <3>6, <3>7 DEF Ranks
    <2>10. CASE ~ (counts[k - 1] > 0)
      <3>1. Active(counts, k) = Active(counts, k - 1)
        BY <1>1, <2>4, <2>10 DEF Active
      <3> QED
        BY <2>2, <2>6, <2>7, <2>10, <3>1
    <2> QED
      BY <2>9, <2>10
  <1> QED
    BY <1>9, <1>11

\* What is printed is the head of a list of all active addresses, and each
\* entry of it leads those behind it.
LEMMA Hotspots ==
  ASSUME NEW counts \in [Space -> Nat], NEW top_n \in Nat
  PROVE  \E list, limit :
           /\ Ranks(list, counts, Active(counts, SPACE))
           /\ limit = IF top_n < Len(list) THEN top_n ELSE Len(list)
           /\ Settled(list, limit + 1)
           /\ profiler_dump_hotspots(counts, top_n) = SubSeq(list, 1, limit)
  <1> DEFINE active == ActiveAddresses(counts)
             X == Active(counts, SPACE)
             n == Len(active)
             limit == IF top_n < n THEN top_n ELSE n
             S == {l \in Seq(Entries) : Ranks(l, counts, X) /\ Len(l) = n}
             f == [i \in 1 .. limit |-> [l \in S |-> Pass(l, i)]]
             Body(t) == [i \in 0 .. limit |->
                           IF i = 0 THEN active ELSE Pass(t[i - 1], i)]
             h == CHOOSE t : t = Body(t)
  <1>1. Ranks(active, counts, X)
    BY ActiveRanks
  <1>2. profiler_dump_hotspots(counts, top_n) = SubSeq(h[limit], 1, limit)
    BY DEF profiler_dump_hotspots
  <1> HIDE DEF active, X
  <1>3. active \in Seq(Entries) /\ n \in Nat
    BY <1>1 DEF Ranks
  <1>4. active \in S
    BY <1>1, <1>3
  <1> HIDE DEF n
  <1>5. limit \in 0 .. n /\ limit \in Nat
    BY <1>3
  <1> HIDE DEF limit
  <1>6. ASSUME NEW l \in S, NEW i \in 1 .. limit PROVE Pass(l, i) \in S
    <2>1. Ranks(l, counts, X) /\ i \in 1 .. Len(l)
      BY <1>3, <1>5
    <2>2. Ranks(Pass(l, i), counts, X) /\ Len(Pass(l, i)) = Len(l)
      BY <2>1, PassSettles
    <2> QED
      BY <2>2 DEF Ranks
  <1> HIDE DEF S
  <1>7. f \in [1 .. limit -> [S -> S]]
    BY <1>6
  <1>8. PICK t \in [0 .. limit -> S] :
          t[0] = active /\ \A i \in 1 .. limit : t[i] = f[i][t[i - 1]]
    <2> HIDE DEF f
    <2> QED
      BY <1>4, <1>5, <1>7, Loop
  <1>9. \E u : u = Body(u)
    <2>1. ASSUME NEW i \in 1 .. limit PROVE t[i] = Pass(t[i - 1], i)
      <3>1. i - 1 \in 0 .. limit
        BY <1>5
      <3>2. t[i - 1] \in S /\ t[i] = f[i][t[i - 1]]
        BY <1>8, <3>1
      <3> QED
        BY <3>2
    <2>2. t = Body(t)
      BY <1>5, <1>8, <2>1
    <2> QED
      BY <2>2
  <1>10. h = Body(h)
    <2> HIDE DEF Body
    <2> QED
      BY <1>9
  <1> HIDE DEF h
  <1>11. h[0] = active /\ \A i \in 1 .. limit : h[i] = Pass(h[i - 1], i)
    BY <1>5, <1>10
  <1> DEFINE Good(i) == h[i] \in S /\ Settled(h[i], i + 1)
             Bad == {i \in 0 .. limit : ~ Good(i)}
  <1>12. Good(limit)
    <2> SUFFICES ASSUME ~ Good(limit) PROVE FALSE
      OBVIOUS
    <2>1. PICK i \in Bad : \A y \in Bad : i <= y
      <3>1. limit \in Bad
        BY <1>5
      <3> HIDE DEF Bad
      <3>2. Bad \in SUBSET Nat
        BY DEF Bad
      <3> QED
        BY <3>1, <3>2, Least
    <2>2. i \in 0 .. limit /\ ~ Good(i)
      BY <2>1
    <2>3. i # 0
      <3>1. Good(0)
        BY <1>4, <1>11 DEF Settled
      <3> HIDE DEF Good
      <3> QED
        BY <2>2, <3>1
    <2>4. i \in 1 .. limit /\ i - 1 \in 0 .. limit /\ i - 1 \notin Bad
      <3> HIDE DEF Bad, Good
      <3> QED
        BY <1>5, <2>1, <2>2, <2>3
    <2>5. Good(i - 1)
      <3> HIDE DEF Good
      <3> QED
        BY <2>4
    <2>6. h[i] = Pass(h[i - 1], i) /\ h[i] \in S
      BY <1>6, <1>11, <2>4, <2>5
    <2>7. /\ Ranks(h[i - 1], counts, X) /\ i \in 1 .. Len(h[i - 1])
          /\ Settled(h[i - 1], i)
      <3>1. (i - 1) + 1 = i
        BY <2>4
      <3>2. Ranks(h[i - 1], counts, X) /\ Len(h[i - 1]) = n
        BY <2>5 DEF S
      <3> QED
        BY <1>3, <1>5, <2>4, <2>5, <3>1, <3>2
    <2>8. Settled(h[i], i + 1)
      BY <2>6, <2>7, PassSettles
    <2>9. Good(i)
      BY <2>6, <2>8
    <2> HIDE DEF Good
    <2> QED
      BY <2>2, <2>9
  <1>13. Ranks(h[limit], counts, X) /\ Len(h[limit]) = n /\ Settled(h[limit], limit + 1)
    BY <1>12 DEF S
  <1> QED
    BY <1>2, <1>13 DEF X, limit

\* Counts are numbers.
CountInv == prof_data \in [Space -> Nat]

\* Whatever was executed, profiler_dump_hotspots prints the addresses executed
\* most, each once, in order and with its own count.
THEOREM HotspotsCorrect == DebuggerSpec => []HotspotsAreTop
  <1>1. DebuggerInit => CountInv
    BY DEF DebuggerInit, CountInv, ZeroCounts
  <1>2. CountInv /\ [DebuggerNext]_debuggerVars => CountInv'
    <2> SUFFICES ASSUME CountInv, [DebuggerNext]_debuggerVars PROVE CountInv'
      OBVIOUS
    <2>1. ASSUME NEW pc \in Space, profiler_record_instruction(pc) PROVE CountInv'
      BY <2>1 DEF CountInv, profiler_record_instruction
    <2>2. CASE prof_data' = ZeroCounts
      BY <2>2 DEF CountInv, ZeroCounts
    <2>3. CASE UNCHANGED profVars
      BY <2>3 DEF CountInv, profVars
    <2>4. CASE Breaking
      BY <2>3, <2>4
      DEF Breaking, debugger_add_breakpoint, debugger_remove_breakpoint,
          debugger_clear_breakpoints, Untouched_by_breakpoints
    <2>5. CASE Watching
      BY <2>3, <2>5
      DEF Watching, debugger_add_watchpoint, debugger_remove_watchpoint,
          debugger_clear_watchpoints, Untouched_by_watchpoints
    <2>6. CASE Toggling
      BY <2>3, <2>6
      DEF Toggling, debugger_enable_breakpoint, debugger_enable_watchpoint,
          Untouched_by_breakpoints, Untouched_by_watchpoints
    <2>7. CASE Checking
      BY <2>3, <2>7
      DEF Checking, debugger_check_watchpoints, Untouched_by_watchpoints, Poke
    <2>8. CASE Profiling
      BY <2>1, <2>2, <2>8 DEF Profiling, profiler_reset
    <2>9. CASE Inspecting
      BY <2>3, <2>9
      DEF Inspecting, Poke, debugger_set_interactive, debugger_continue
    <2>10. CASE UNCHANGED debuggerVars
      BY <2>3, <2>10 DEF debuggerVars
    <2>11. CASE debugger_init \/ debugger_cleanup
      BY <2>2, <2>3, <2>11 DEF debugger_init, debugger_cleanup
    <2> QED
      BY <2>4, <2>5, <2>6, <2>7, <2>8, <2>9, <2>10, <2>11 DEF DebuggerNext
  <1>3. CountInv => HotspotsAreTop
    <2> SUFFICES ASSUME CountInv, NEW top_n \in 0 .. SPACE
        PROVE LET shown  == profiler_dump_hotspots(prof_data, top_n)
                  active == {a \in Space : prof_data[a] > 0}
                  listed == {shown[i].addr : i \in DOMAIN shown}
              IN  /\ Cardinality(listed) = Len(shown)
                  /\ Len(shown) = IF top_n < Cardinality(active) THEN top_n
                                                       ELSE Cardinality(active)
                  /\ \A i \in DOMAIN shown :
                       /\ shown[i].count = prof_data[shown[i].addr]
                       /\ \A a \in active \ {shown[k].addr : k \in 1 .. i} :
                            prof_data[a] <= shown[i].count
      BY DEF HotspotsAreTop
    <2> DEFINE shown == profiler_dump_hotspots(prof_data, top_n)
               active == {a \in Space : prof_data[a] > 0}
               listed == {shown[i].addr : i \in DOMAIN shown}
    <2>1. top_n \in Nat /\ prof_data \in [Space -> Nat]
      BY InspectionAssumption DEF CountInv
    <2>2. active = Active(prof_data, SPACE)
      BY DEF Active, Space
    <2>3. PICK list, limit :
            /\ Ranks(list, prof_data, active)
            /\ limit = IF top_n < Len(list) THEN top_n ELSE Len(list)
            /\ Settled(list, limit + 1)
            /\ shown = SubSeq(list, 1, limit)
      BY <2>1, <2>2, Hotspots
    <2> HIDE DEF active, shown
    <2>4. Len(list) \in Nat /\ Cardinality(active) = Len(list)
      BY <2>3, RanksCount
    <2>5. /\ limit \in 0 .. Len(list) /\ limit \in Nat
          /\ limit = IF top_n < Cardinality(active) THEN top_n
                                                    ELSE Cardinality(active)
      BY <2>1, <2>3, <2>4
    <2>6. /\ list \in Seq(Entries) /\ DOMAIN list = 1 .. Len(list)
      BY <2>3 DEF Ranks
    <2>7. /\ shown \in Seq(Entries) /\ Len(shown) = limit
          /\ DOMAIN shown = 1 .. limit
          /\ \A i \in 1 .. limit : shown[i] = list[i]
      <3>1. \A i \in 1 .. limit : list[i] \in Entries
        BY <2>4, <2>5, <2>6
      <3>2. 1 \in Int /\ limit \in Int
        BY <2>5
      <3>3. /\ SubSeq(list, 1, limit) \in Seq(Entries)
            /\ Len(SubSeq(list, 1, limit)) = IF 1 <= limit THEN limit - 1 + 1 ELSE 0
            /\ \A i \in 1 .. limit - 1 + 1 : SubSeq(list, 1, limit)[i] = list[1 + i - 1]
        BY <3>1, <3>2, SubSeqProperties
      <3>4. /\ limit - 1 + 1 = limit /\ (IF 1 <= limit THEN limit ELSE 0) = limit
            /\ \A i \in 1 .. limit : 1 + i - 1 = i
        BY <2>5
      <3> QED
        BY <2>3, <3>3, <3>4
    <2>8. Cardinality(listed) = Len(shown)
      <3>1. Ranks(shown, prof_data, listed)
        <4>1. \A p \in 1 .. limit : p \in DOMAIN list
          BY <2>4, <2>5, <2>6
        <4>2. \A p \in DOMAIN shown : /\ shown[p].addr \in listed
                                      /\ shown[p].count = prof_data[shown[p].addr]
          BY <2>3, <2>7, <4>1 DEF Ranks
        <4>3. \A p, q \in DOMAIN shown : shown[p].addr = shown[q].addr => p = q
          BY <2>3, <2>7, <4>1 DEF Ranks
        <4> QED
          BY <2>7, <4>2, <4>3 DEF Ranks
      <3> HIDE DEF listed
      <3> QED
        BY <3>1, RanksCount
    <2>9. ASSUME NEW i \in DOMAIN shown
          PROVE  /\ shown[i].count = prof_data[shown[i].addr]
                 /\ \A a \in active \ {shown[k].addr : k \in 1 .. i} :
                      prof_data[a] <= shown[i].count
      <3>1. i \in 1 .. limit /\ i \in DOMAIN list /\ shown[i] = list[i]
        BY <2>4, <2>5, <2>6, <2>7
      <3>2. shown[i].count = prof_data[shown[i].addr]
        BY <2>3, <3>1 DEF Ranks
      <3>3. ASSUME NEW a \in active \ {shown[k].addr : k \in 1 .. i}
            PROVE  prof_data[a] <= shown[i].count
        <4>1. PICK p \in DOMAIN list : list[p].addr = a
          BY <2>3 DEF Ranks
        <4>2. list[p].count = prof_data[a]
          BY <2>3, <4>1 DEF Ranks
        <4>3. p \notin 1 .. i
          <5>1. SUFFICES ASSUME p \in 1 .. i PROVE FALSE
            OBVIOUS
          <5>2. p \in 1 .. limit
            BY <2>5, <3>1, <5>1
          <5>3. shown[p].addr = a
            BY <2>7, <4>1, <5>2
          <5> QED
            BY <5>1, <5>3
        <4>4. p \in i .. Len(list) /\ i \in 1 .. (limit + 1) - 1
          BY <2>4, <2>5, <2>6, <3>1, <4>3
        <4>5. list[p].count <= list[i].count
          BY <2>3, <4>4 DEF Settled, Leads
        <4> QED
          BY <3>1, <4>2, <4>5
      <3> QED
        BY <3>2, <3>3
    <2>10. Len(shown) = IF top_n < Cardinality(active) THEN top_n
                                                       ELSE Cardinality(active)
      BY <2>5, <2>7
    <2> QED
      BY <2>8, <2>9, <2>10 DEF active, shown
  <1> QED
    BY <1>1, <1>2, <1>3, PTL DEF DebuggerSpec
=============================================================================
