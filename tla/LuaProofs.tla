----------------------------- MODULE LuaProofs -----------------------------
(***************************************************************************)
(* Proofs about LuaGuest.  The invariant has a part for what the scopes    *)
(* hold (HeapInv), one for the chain of threads (ChainInv) and one for     *)
(* require (LoadInv).  A step changes the stack of at most one thread, in  *)
(* one of five ways: a scope is pushed, a variable is declared, the top    *)
(* begins to be left, a handler is called, or the innermost scopes go.     *)
(* There is a lemma for each (PushMoves, DeclareMoves, CloseMoves,         *)
(* CallMoves, DropMoves, and TempMoves for a coroutine that is collected): *)
(* it Moves the stack.  MovesKeep shows once that a move keeps HeapInv;    *)
(* a lemma per operation names its move and keeps ChainInv.                *)
(*                                                                         *)
(* Finally and Varargs are computed along a stack; what is said of them is *)
(* proved by Induction, which takes a set of numbers and not a predicate,  *)
(* and comes from the order of the natural numbers being well founded.     *)
(***************************************************************************)
EXTENDS LuaGuest, WellFoundedInduction, SequenceTheorems, TLAPS

(* A set of numbers has a least one. *)
LEMMA Least ==
  ASSUME NEW S \in SUBSET Nat, S # {} PROVE \E m \in S : \A x \in S : m <= x
<1>1. \E m \in S : \A x \in S : <<x, m>> \notin OpToRel(<, Nat)
  BY NatLessThanWellFounded, WFMin, Zenon
<1>2. \A x, m \in Nat : <<x, m>> \in OpToRel(<, Nat) <=> x < m
  BY Zenon DEF OpToRel
<1>3. \E m \in S : \A x \in S : ~ x < m
  BY <1>1, <1>2, Zenon
<1> QED BY <1>3

(* Induction for a set of numbers. *)
LEMMA Induction ==
  ASSUME NEW S, 0 \in S, \A n, m \in Nat : n \in S /\ m = n + 1 => m \in S
  PROVE  Nat \subseteq S
<1> DEFINE T == Nat \ S
<1>1. ASSUME T # {} PROVE FALSE
  <2>1. PICK m \in T : \A x \in T : m <= x
    BY <1>1, Least
  <2>2. m # 0 /\ m - 1 \in Nat /\ m - 1 \notin T
    BY <2>1
  <2> QED BY <2>1, <2>2
<1> QED BY <1>1

-----------------------------------------------------------------------------
(* Varargs *)

With(v, s) == IF s.va THEN Append(v, s.id) ELSE v

VFun(f, b, ss, n) == f = [k \in 0 .. n |-> IF k = 0 THEN b ELSE With(f[k - 1], ss[k])]

LEMMA VarargsExist ==
  ASSUME NEW b, NEW ss, NEW n \in Nat PROVE \E f : VFun(f, b, ss, n)
<1> DEFINE S == {m \in Nat : \E f : VFun(f, b, ss, m)}
<1>1. 0 \in S
  <2>1. VFun([k \in 0 .. 0 |-> b], b, ss, 0)
    BY DEF VFun
  <2> QED BY <2>1
<1>2. ASSUME NEW m \in Nat, NEW q \in Nat, m \in S, q = m + 1 PROVE q \in S
  <2>1. PICK f : VFun(f, b, ss, m)
    BY <1>2
  <2> DEFINE g == [k \in 0 .. q |-> IF k <= m THEN f[k] ELSE With(f[m], ss[q])]
  <2>2. ASSUME NEW k \in 0 .. q
        PROVE  g[k] = IF k = 0 THEN b ELSE With(g[k - 1], ss[k])
    <3>1. CASE k <= m
      <4>1. g[k] = f[k] /\ (k # 0 => g[k - 1] = f[k - 1])
        BY <3>1, <1>2
      <4>2. f[k] = IF k = 0 THEN b ELSE With(f[k - 1], ss[k])
        BY <2>1, <3>1 DEF VFun
      <4> QED BY <4>1, <4>2
    <3>2. CASE k = q
      BY <3>2, <1>2
    <3> QED BY <3>1, <3>2, <1>2
  <2>3. VFun(g, b, ss, q)
    BY <2>2, Zenon DEF VFun
  <2> QED BY <2>3
<1> HIDE DEF S
<1>3. Nat \subseteq S
  BY <1>1, <1>2, Induction
<1> QED BY <1>3 DEF S

LEMMA VarargsFun ==
  ASSUME NEW b, NEW ss, Len(ss) \in Nat
  PROVE  \E f : VFun(f, b, ss, Len(ss)) /\ Varargs(b, ss) = f[Len(ss)]
<1> DEFINE g == CHOOSE f : VFun(f, b, ss, Len(ss))
<1>1. VFun(g, b, ss, Len(ss))
  BY VarargsExist, Zenon
<1>2. Varargs(b, ss) = g[Len(ss)]
  BY Zenon DEF Varargs, VFun, With
<1> QED BY <1>1, <1>2

(* Two computations agree as far as the scopes do. *)
Alike(ss, tt, k) == \A i \in 1 .. k : ss[i].va = tt[i].va /\ ss[i].id = tt[i].id

LEMMA VarargsAgree ==
  ASSUME NEW b, NEW ss, NEW tt, NEW m \in Nat, NEW n \in Nat, NEW k \in Nat,
         NEW f, NEW g, VFun(f, b, ss, m), VFun(g, b, tt, n),
         k <= m, k <= n, Alike(ss, tt, k)
  PROVE  f[k] = g[k]
<1> DEFINE S == {j \in Nat : j <= k => f[j] = g[j]}
<1>1. 0 \in S
  BY DEF VFun
<1>2. ASSUME NEW j \in Nat, NEW q \in Nat, j \in S, q = j + 1 PROVE q \in S
  <2>1. CASE q <= k
    <3>1. f[q] = With(f[j], ss[q]) /\ g[q] = With(g[j], tt[q])
      BY <1>2, <2>1 DEF VFun
    <3>2. With(g[j], tt[q]) = With(g[j], ss[q])
      BY <1>2, <2>1 DEF With, Alike
    <3>3. f[j] = g[j]
      BY <1>2, <2>1
    <3> QED BY <3>1, <3>2, <3>3
  <2>2. CASE ~ q <= k
    BY <2>2
  <2> QED BY <2>1, <2>2
<1> HIDE DEF S
<1>3. Nat \subseteq S
  BY <1>1, <1>2, Induction
<1> QED BY <1>3 DEF S

LEMMA VarargsNone == ASSUME NEW b PROVE Varargs(b, <<>>) = b
<1>1. PICK f : VFun(f, b, <<>>, 0) /\ Varargs(b, <<>>) = f[0]
  BY VarargsFun
<1> QED BY <1>1 DEF VFun

LEMMA VarargsSame ==
  ASSUME NEW b, NEW ss \in Seq(Scope), NEW tt \in Seq(Scope), Len(ss) = Len(tt),
         \A i \in 1 .. Len(ss) : ss[i].va = tt[i].va /\ ss[i].id = tt[i].id
  PROVE  Varargs(b, ss) = Varargs(b, tt)
<1>1. PICK f : VFun(f, b, ss, Len(ss)) /\ Varargs(b, ss) = f[Len(ss)]
  BY VarargsFun
<1>2. PICK g : VFun(g, b, tt, Len(tt)) /\ Varargs(b, tt) = g[Len(tt)]
  BY VarargsFun
<1>0. PICK n : n = Len(ss)
  OBVIOUS
<1>3. /\ n \in Nat /\ n <= n /\ VFun(f, b, ss, n) /\ VFun(g, b, tt, n)
      /\ Alike(ss, tt, n)
  BY <1>0, <1>1, <1>2 DEF Alike
<1>4. f[n] = g[n]
  BY <1>3, VarargsAgree
<1>5. QED
  BY <1>0, <1>1, <1>2, <1>4

LEMMA VarargsAppend ==
  ASSUME NEW b, NEW ss \in Seq(Scope), NEW s \in Scope
  PROVE  Varargs(b, Append(ss, s)) = With(Varargs(b, ss), s)
<1> DEFINE tt == Append(ss, s)
<1>0. Len(tt) = Len(ss) + 1 /\ tt[Len(tt)] = s /\ \A i \in 1 .. Len(ss) : tt[i] = ss[i]
  OBVIOUS
<1> HIDE DEF tt
<1>1. PICK f : VFun(f, b, ss, Len(ss)) /\ Varargs(b, ss) = f[Len(ss)]
  BY VarargsFun
<1>2. PICK g : VFun(g, b, tt, Len(tt)) /\ Varargs(b, tt) = g[Len(tt)]
  BY <1>0, VarargsFun
<1>6. PICK n, m : n = Len(ss) /\ m = Len(tt)
  OBVIOUS
<1>5. /\ n \in Nat /\ m \in Nat /\ n <= n /\ n <= m
      /\ VFun(f, b, ss, n) /\ VFun(g, b, tt, m)
      /\ Alike(ss, tt, n)
  BY <1>0, <1>1, <1>2, <1>6 DEF Alike
<1>3. f[n] = g[n]
  BY <1>5, VarargsAgree
<1>4. g[Len(tt)] = With(g[Len(ss)], s)
  BY <1>0, <1>2 DEF VFun
<1> QED BY <1>1, <1>2, <1>3, <1>4, <1>6 DEF tt

LEMMA Prefix ==
  ASSUME NEW S, NEW s \in Seq(S), NEW i \in 1 .. Len(s), NEW j \in Nat, i = j + 1
  PROVE  /\ SubSeq(s, 1, j) \in Seq(S)
         /\ SubSeq(s, 1, i) = Append(SubSeq(s, 1, j), s[i])
<1>1. SubSeq(s, 1, j) \in Seq(S) /\ SubSeq(s, 1, i) \in Seq(S)
  OBVIOUS
<1>2. Append(SubSeq(s, 1, j), s[i]) \in Seq(S)
  BY <1>1
<1>3. Len(SubSeq(s, 1, j)) = j /\ Len(SubSeq(s, 1, i)) = i
  OBVIOUS
<1>4. \A k \in 1 .. i : SubSeq(s, 1, i)[k] = Append(SubSeq(s, 1, j), s[i])[k]
  BY <1>1, <1>3
<1> QED BY <1>1, <1>2, <1>3, <1>4, SeqEqual

LEMMA WithType ==
  ASSUME NEW v \in Seq(Nat), NEW s \in Scope PROVE With(v, s) \in Seq(Nat)
<1>1. s.id \in Nat
  BY DEF Scope
<1>2. Append(v, s.id) \in Seq(Nat)
  BY <1>1
<1> QED BY <1>2, Zenon DEF With

LEMMA VarargsType ==
  ASSUME NEW b \in Seq(Nat), NEW ss \in Seq(Scope) PROVE Varargs(b, ss) \in Seq(Nat)
<1> DEFINE S == {n \in Nat : n <= Len(ss) => Varargs(b, SubSeq(ss, 1, n)) \in Seq(Nat)}
<1>1. 0 \in S
  <2>1. SubSeq(ss, 1, 0) = <<>>
    OBVIOUS
  <2> QED BY <2>1, VarargsNone
<1>2. ASSUME NEW n \in Nat, NEW m \in Nat, n \in S, m = n + 1 PROVE m \in S
  <2>1. SUFFICES ASSUME m <= Len(ss) PROVE Varargs(b, SubSeq(ss, 1, m)) \in Seq(Nat)
    OBVIOUS
  <2>2. /\ SubSeq(ss, 1, n) \in Seq(Scope)
        /\ SubSeq(ss, 1, m) = Append(SubSeq(ss, 1, n), ss[m]) /\ ss[m] \in Scope
    BY <1>2, <2>1, Prefix
  <2>3. Varargs(b, SubSeq(ss, 1, m)) = With(Varargs(b, SubSeq(ss, 1, n)), ss[m])
    BY <2>2, VarargsAppend
  <2>4. Varargs(b, SubSeq(ss, 1, n)) \in Seq(Nat)
    BY <1>2, <2>1
  <2> QED BY <2>2, <2>3, <2>4, WithType
<1> HIDE DEF S
<1>3. Len(ss) \in S
  BY <1>1, <1>2, Induction
<1>4. Varargs(b, SubSeq(ss, 1, Len(ss))) \in Seq(Nat)
  BY <1>3 DEF S
<1>5. SubSeq(ss, 1, Len(ss)) = ss
  BY SubSeqFull
<1> QED BY <1>4, <1>5

-----------------------------------------------------------------------------
(* The finally clauses *)

LFun(f, ss, w, n) ==
  f = [k \in 0 .. n |-> IF k = 0 THEN w ELSE LeaveScope(f[k - 1], ss[Len(ss) - k + 1])]

LEMMA FinallyExists ==
  ASSUME NEW w, NEW ss, NEW n \in Nat PROVE \E f : LFun(f, ss, w, n)
<1> DEFINE S == {m \in Nat : \E f : LFun(f, ss, w, m)}
<1>1. 0 \in S
  <2>1. LFun([k \in 0 .. 0 |-> w], ss, w, 0)
    BY DEF LFun
  <2> QED BY <2>1
<1>2. ASSUME NEW m \in Nat, NEW q \in Nat, m \in S, q = m + 1 PROVE q \in S
  <2>1. PICK f : LFun(f, ss, w, m)
    BY <1>2
  <2> DEFINE g == [k \in 0 .. q |-> IF k <= m THEN f[k]
                                    ELSE LeaveScope(f[m], ss[Len(ss) - q + 1])]
  <2>2. ASSUME NEW k \in 0 .. q
        PROVE  g[k] = IF k = 0 THEN w ELSE LeaveScope(g[k - 1], ss[Len(ss) - k + 1])
    <3>1. CASE k <= m
      <4>1. g[k] = f[k] /\ (k # 0 => g[k - 1] = f[k - 1])
        BY <3>1, <1>2
      <4>2. f[k] = IF k = 0 THEN w ELSE LeaveScope(f[k - 1], ss[Len(ss) - k + 1])
        BY <2>1, <3>1 DEF LFun
      <4> QED BY <4>1, <4>2
    <3>2. CASE k = q
      BY <3>2, <1>2
    <3> QED BY <3>1, <3>2, <1>2
  <2>3. LFun(g, ss, w, q)
    BY <2>2, Zenon DEF LFun
  <2> QED BY <2>3
<1> HIDE DEF S
<1>3. Nat \subseteq S
  BY <1>1, <1>2, Induction
<1> QED BY <1>3 DEF S

LEMMA FinallyFun ==
  ASSUME NEW w, NEW ss, Len(ss) \in Nat
  PROVE  \E f : LFun(f, ss, w, Len(ss)) /\ Finally(ss, w) = f[Len(ss)]
<1> DEFINE g == CHOOSE f : LFun(f, ss, w, Len(ss))
<1>1. LFun(g, ss, w, Len(ss))
  BY FinallyExists, Zenon
<1>2. Finally(ss, w) = g[Len(ss)]
  BY Zenon DEF Finally, LFun
<1> HIDE DEF g
<1> QED BY <1>1, <1>2, Zenon

(* Each step of f leaves one scope, the innermost first. *)
Leaving(f, ss, w, n) ==
  f[0] = w /\ \A k \in 1 .. n : f[k] = LeaveScope(f[k - 1], ss[Len(ss) - k + 1])

LEMMA LFunSteps ==
  ASSUME NEW f, NEW w, NEW ss, NEW n \in Nat, LFun(f, ss, w, n)
  PROVE  Leaving(f, ss, w, n)
BY DEF LFun, Leaving

LEMMA Fronts ==
  ASSUME NEW S, NEW s \in Seq(S), s # <<>>
  PROVE  /\ Front(s) \in Seq(S) /\ Len(Front(s)) = Len(s) - 1 /\ Len(s) > 0
         /\ \A i \in 1 .. Len(s) - 1 : Front(s)[i] = s[i]
         /\ Last(s) = s[Len(s)] /\ Last(s) \in S
         /\ ToSet(s) = ToSet(Front(s)) \cup {Last(s)}
<1>0. Len(s) > 0 /\ Len(s) \in Nat /\ s[Len(s)] \in S
  OBVIOUS
<1>5. PICK n \in Nat : n = Len(s) - 1
  BY <1>0
<1>6. SubSeq(s, 1, n) = Front(s) /\ n <= Len(s)
  BY <1>0, <1>5 DEF Front
<1>7. /\ SubSeq(s, 1, n) \in Seq(S)
      /\ Len(SubSeq(s, 1, n)) = n
      /\ \A i \in 1 .. n : SubSeq(s, 1, n)[i] = s[i]
  BY <1>6
<1>4. /\ Front(s) \in Seq(S) /\ Len(Front(s)) = Len(s) - 1
      /\ \A i \in 1 .. Len(s) - 1 : Front(s)[i] = s[i]
  BY <1>5, <1>6, <1>7
<1>1. /\ Front(s) \in Seq(S) /\ Len(Front(s)) = Len(s) - 1 /\ Len(s) > 0
      /\ \A i \in 1 .. Len(s) - 1 : Front(s)[i] = s[i]
      /\ Last(s) = s[Len(s)] /\ Last(s) \in S
  BY <1>0, <1>4 DEF Last
<1>2. DOMAIN s = 1 .. Len(s) /\ DOMAIN Front(s) = 1 .. Len(s) - 1
  BY <1>1
<1>3. ToSet(s) = ToSet(Front(s)) \cup {Last(s)}
  BY <1>1, <1>2 DEF ToSet
<1> QED BY <1>1, <1>3

LEMMA PopAppend ==
  ASSUME NEW v \in Seq(Nat), NEW x \in Nat PROVE PopVarargs(Append(v, x)) = v
<1>0. Append(v, x) \in Seq(Nat)
  OBVIOUS
<1>1. PICK u \in Seq(Nat) : u = Append(v, x)
  BY <1>0
<1>2. u # <<>> /\ Len(u) = Len(v) + 1 /\ Len(v) \in Nat /\ \A k \in 1 .. Len(v) : u[k] = v[k]
  BY <1>1
<1>3. Front(u) \in Seq(Nat) /\ Len(Front(u)) = Len(v) /\ \A i \in 1 .. Len(v) : Front(u)[i] = u[i]
  <2>1. Len(u) - 1 = Len(v)
    BY <1>2
  <2>2. /\ Front(u) \in Seq(Nat) /\ Len(Front(u)) = Len(u) - 1
        /\ \A i \in 1 .. Len(u) - 1 : Front(u)[i] = u[i]
    BY <1>2, Fronts
  <2> QED BY <2>1, <2>2
<1>4. Front(u) = v
  BY <1>2, <1>3, SeqEqual
<1> QED BY <1>1, <1>2, <1>4 DEF PopVarargs

(* A finally clause takes at most its own bubble off the list. *)
LEMMA LeaveScopeLive ==
  ASSUME NEW S, NEW T, NEW w, NEW s \in Scope, w.live \in Seq(S), w.va \in Seq(T)
  PROVE  /\ LeaveScope(w, s).live \in Seq(S) /\ LeaveScope(w, s).va \in Seq(T)
         /\ ToSet(w.live) \ {s.id} \subseteq ToSet(LeaveScope(w, s).live)
         /\ LeaveScope(w, s).va = IF s.va THEN PopVarargs(w.va) ELSE w.va
BY Fronts DEF LeaveScope, PopLive, PopVarargs

LEMMA FinallyLive ==
  ASSUME NEW S, NEW T, NEW ss \in Seq(Scope), NEW w, w.live \in Seq(S), w.va \in Seq(T)
  PROVE  /\ Finally(ss, w).live \in Seq(S) /\ Finally(ss, w).va \in Seq(T)
         /\ ToSet(w.live) \ Ids(ss) \subseteq ToSet(Finally(ss, w).live)
<1>0. Len(ss) \in Nat
  OBVIOUS
<1>a. PICK f : LFun(f, ss, w, Len(ss)) /\ Finally(ss, w) = f[Len(ss)]
  BY <1>0, FinallyFun, Zenon
<1>c. Leaving(f, ss, w, Len(ss))
  BY <1>0, <1>a, LFunSteps, Zenon
<1>1. /\ Finally(ss, w) = f[Len(ss)]
      /\ f[0] = w
      /\ \A k \in 1 .. Len(ss) : f[k] = LeaveScope(f[k - 1], ss[Len(ss) - k + 1])
  BY <1>a, <1>c, Zenon DEF Leaving
<1> DEFINE P == {k \in Nat : k <= Len(ss) =>
                   /\ f[k].live \in Seq(S) /\ f[k].va \in Seq(T)
                   /\ ToSet(w.live) \ Ids(ss) \subseteq ToSet(f[k].live)}
<1>2. 0 \in P
  BY <1>1
<1>3. ASSUME NEW n \in Nat, NEW m \in Nat, n \in P, m = n + 1 PROVE m \in P
  <2>1. SUFFICES ASSUME m <= Len(ss)
                 PROVE  /\ f[m].live \in Seq(S) /\ f[m].va \in Seq(T)
                        /\ ToSet(w.live) \ Ids(ss) \subseteq ToSet(f[m].live)
    OBVIOUS
  <2>2. PICK s \in Scope : f[m] = LeaveScope(f[n], s) /\ s.id \in Ids(ss)
    <3>1. Len(ss) - m + 1 \in DOMAIN ss /\ ss[Len(ss) - m + 1] \in Scope
      BY <1>3, <2>1
    <3>2. f[m] = LeaveScope(f[n], ss[Len(ss) - m + 1])
      BY <1>1, <1>3, <2>1
    <3> QED BY <3>1, <3>2 DEF Ids
  <2>3. /\ f[n].live \in Seq(S) /\ f[n].va \in Seq(T)
        /\ ToSet(w.live) \ Ids(ss) \subseteq ToSet(f[n].live)
    BY <1>3, <2>1
  <2>4. /\ f[m].live \in Seq(S) /\ f[m].va \in Seq(T)
        /\ ToSet(f[n].live) \ {s.id} \subseteq ToSet(f[m].live)
    <3>1. PICK x : x = f[n]
      OBVIOUS
    <3>2. x.live \in Seq(S) /\ x.va \in Seq(T) /\ f[m] = LeaveScope(x, s)
      BY <2>2, <2>3, <3>1
    <3>3. LeaveScope(x, s).live \in Seq(S) /\ LeaveScope(x, s).va \in Seq(T)
      BY <3>2, LeaveScopeLive
    <3>4. ToSet(x.live) \ {s.id} \subseteq ToSet(LeaveScope(x, s).live)
      BY <3>2, LeaveScopeLive
    <3> QED BY <3>1, <3>2, <3>3, <3>4
  <2> QED BY <2>2, <2>3, <2>4
<1> HIDE DEF P
<1>4. Len(ss) \in P
  BY <1>2, <1>3, Induction
<1> QED BY <1>1, <1>4 DEF P

(* w is left with the varargs of the i outermost scopes of all. *)
Holds(b, all, i, w) == w.live \in Seq(Nat) /\ w.va = Varargs(b, SubSeq(all, 1, i))

LEMMA LeaveScopeVarargs ==
  ASSUME NEW b \in Seq(Nat), NEW all \in Seq(Scope), NEW i \in 1 .. Len(all),
         NEW j \in Nat, i = j + 1, NEW w, Holds(b, all, i, w)
  PROVE  Holds(b, all, j, LeaveScope(w, all[i]))
<1>0. all[i] \in Scope /\ w.live \in Seq(Nat) /\ w.va = Varargs(b, SubSeq(all, 1, i))
  BY DEF Holds
<1>1. PICK s \in Scope : s = all[i] /\ s.id \in Nat
  BY <1>0 DEF Scope
<1>2. /\ SubSeq(all, 1, j) \in Seq(Scope)
      /\ SubSeq(all, 1, i) = Append(SubSeq(all, 1, j), s)
  BY <1>1, Prefix
<1>3. PICK v \in Seq(Nat) : v = Varargs(b, SubSeq(all, 1, j))
  BY <1>2, VarargsType
<1>4. w.va = With(v, s)
  BY <1>0, <1>2, <1>3, VarargsAppend
<1>5. w.va \in Seq(Nat)
  BY <1>4, WithType
<1>6. LeaveScope(w, s).live \in Seq(Nat)
  BY <1>0, <1>5, LeaveScopeLive
<1>8. LeaveScope(w, s).va = IF s.va THEN PopVarargs(w.va) ELSE w.va
  BY DEF LeaveScope
<1>7. PopVarargs(Append(v, s.id)) = v
  BY <1>1, PopAppend
<1> QED BY <1>1, <1>3, <1>4, <1>6, <1>7, <1>8 DEF With, Holds

(* ss is what all holds from its g-th element on. *)
Rest(ss, all, g) ==
  /\ ss \in Seq(Scope)
  /\ Len(ss) = Len(all) - g + 1
  /\ \A i \in 1 .. Len(ss) : ss[i] = all[g + i - 1]

CanPop(b, all, h, n, g, w, ss) ==
  /\ h = Len(all) /\ n = Len(ss) /\ n = h - g + 1 /\ g >= 1
  /\ w.live \in Seq(Nat) /\ w.va = Varargs(b, all) /\ Rest(ss, all, g)

LEMMA FinallyPops ==
  ASSUME NEW b \in Seq(Nat), NEW all \in Seq(Scope), NEW h \in Nat, NEW n \in Nat,
         NEW g \in Nat, NEW w, NEW ss
  PROVE  CanPop(b, all, h, n, g, w, ss) => Finally(ss, w).va = Varargs(b, SubSeq(all, 1, g - 1))
<1>1. SUFFICES ASSUME h = Len(all), n = Len(ss), n = h - g + 1, g >= 1,
                      w.live \in Seq(Nat), w.va = Varargs(b, all), Rest(ss, all, g)
               PROVE  Finally(ss, w).va = Varargs(b, SubSeq(all, 1, g - 1))
  BY DEF CanPop
<1>2. Len(ss) \in Nat
  BY <1>1
<1>a. PICK f : LFun(f, ss, w, Len(ss)) /\ Finally(ss, w) = f[Len(ss)]
  BY <1>2, FinallyFun, Zenon
<1>c. Leaving(f, ss, w, Len(ss))
  BY <1>2, <1>a, LFunSteps, Zenon
<1>3. /\ Finally(ss, w) = f[Len(ss)]
      /\ f[0] = w
      /\ \A k \in 1 .. Len(ss) : f[k] = LeaveScope(f[k - 1], ss[Len(ss) - k + 1])
  BY <1>a, <1>c, Zenon DEF Leaving
<1> DEFINE Q(k) == Holds(b, all, h - k, f[k])
           P == {k \in Nat : k <= n => Q(k)}
<1> HIDE DEF Q, P
<1>4. Q(0)
  <2>1. SubSeq(all, 1, h - 0) = all
    BY <1>1, SubSeqFull
  <2> QED BY <1>1, <1>3, <2>1 DEF Q, Holds
<1>5. ASSUME NEW k \in Nat, NEW m \in Nat, m = k + 1, m <= n, Q(k) PROVE Q(m)
  <2>0. m \in 1 .. n /\ m - 1 = k
    BY <1>5
  <2>1. PICK q \in 1 .. n : q = n - m + 1
    BY <2>0
  <2>10. n = h - g + 1 /\ g >= 1 /\ m = k + 1 /\ m <= n
    BY <1>1, <1>5
  <2>11. h - k \in 1 .. h /\ h - m \in Nat /\ h - k = (h - m) + 1
    BY <2>10
  <2>2. PICK i \in 1 .. h : i = h - k
    BY <2>11
  <2>3. PICK j \in Nat : j = h - m /\ i = j + 1
    BY <2>2, <2>11
  <2>4. ss[q] = all[i]
    <3>1. g + q - 1 = i
      BY <1>1, <1>5, <2>0, <2>1, <2>2
    <3> QED BY <1>1, <2>1, <3>1 DEF Rest
  <2>5. f[m] = LeaveScope(f[k], all[i])
    <3>1. f[m] = LeaveScope(f[m - 1], ss[n - m + 1])
      BY <1>1, <1>3, <2>0
    <3> QED BY <2>0, <2>1, <2>4, <3>1
  <2>6. Holds(b, all, i, f[k])
    BY <1>5, <2>2 DEF Q
  <2>7. i \in 1 .. Len(all)
    BY <1>1, <2>2
  <2>8. Holds(b, all, j, LeaveScope(f[k], all[i]))
    BY <2>3, <2>6, <2>7, LeaveScopeVarargs, Zenon
  <2> QED BY <2>3, <2>5, <2>8 DEF Q
<1>6. Q(n)
  <2>1. 0 \in P
    BY <1>4 DEF P
  <2>2. ASSUME NEW k \in Nat, NEW m \in Nat, k \in P, m = k + 1 PROVE m \in P
    BY <1>5, <2>2 DEF P
  <2>3. n \in P
    BY <2>1, <2>2, Induction
  <2> QED BY <2>3 DEF P
<1>7. h - n = g - 1
  BY <1>1
<1> QED BY <1>1, <1>3, <1>6, <1>7 DEF Q, Holds

(* What ends the innermost scopes leaves the varargs of the others. *)
LEMMA FinallyVarargs ==
  ASSUME NEW b \in Seq(Nat), NEW all \in Seq(Scope), NEW g \in 1 .. Len(all) + 1, NEW w,
         w.live \in Seq(Nat), w.va = Varargs(b, all)
  PROVE  Finally(SubSeq(all, g, Len(all)), w).va = Varargs(b, SubSeq(all, 1, g - 1))
<1>1. PICK h \in Nat : h = Len(all) /\ g \in 1 .. h + 1 /\ \A i \in 1 .. h : all[i] \in Scope
  OBVIOUS
<1>2. g \in Int /\ h \in Int /\ \A i \in g .. h : all[i] \in Scope
  BY <1>1
<1>3. /\ SubSeq(all, g, h) \in Seq(Scope)
      /\ Len(SubSeq(all, g, h)) = IF g <= h THEN h - g + 1 ELSE 0
      /\ \A i \in 1 .. h - g + 1 : SubSeq(all, g, h)[i] = all[g + i - 1]
  BY <1>2, SubSeqProperties
<1>4. PICK ss : ss = SubSeq(all, g, h)
  OBVIOUS
<1>5. Len(ss) = h - g + 1
  BY <1>1, <1>3, <1>4
<1>6. Rest(ss, all, g)
  BY <1>1, <1>3, <1>4, <1>5 DEF Rest
<1>7. Len(ss) \in Nat /\ g \in Nat /\ g >= 1
  BY <1>1, <1>5
<1>9. PICK n \in Nat : n = Len(ss)
  BY <1>7
<1>8. Finally(ss, w).va = Varargs(b, SubSeq(all, 1, g - 1))
  <2>1. CanPop(b, all, h, n, g, w, ss)
    BY <1>1, <1>5, <1>6, <1>7, <1>9 DEF CanPop
  <2>2. h \in Nat /\ n \in Nat /\ g \in Nat
    BY <1>1, <1>7, <1>9
  <2> QED BY <2>1, <2>2, FinallyPops
<1> QED BY <1>1, <1>4, <1>8

-----------------------------------------------------------------------------
(* One stack of scopes *)

(* What holds of the scope at i in the stack ss: the list under @tbc is    *)
(* gone through only once, only the handler it calls is open above a scope *)
(* being left, and a forced close meets no call of a C function.           *)
ScopeSound(ss, i) ==
  /\ ss[i].exit = "run" => ss[i].todo = <<>>
  /\ ss[i].exit # "run" => ss[i].tbc = <<>>
  /\ ss[i].exit # "run" /\ i < Len(ss) => ss[i + 1].form = "close"
  /\ ss[i].exit = "force" => \A j \in 1 .. i : ss[j].form \notin Gate
  /\ ss[i].form = "close" => i # 1
  /\ IsInjective(ss[i].tbc) /\ IsInjective(ss[i].todo)

IdsApart(ss) == \A i, j \in 1 .. Len(ss) : ss[i].id = ss[j].id => i = j

StackSound(ss) ==
  /\ ss \in Seq(Scope)
  /\ \A i \in 1 .. Len(ss) : ScopeSound(ss, i)
  /\ IdsApart(ss)

Gateless(ss) == \A i \in 1 .. Len(ss) : ss[i].form \notin Gate

LEMMA SoundNone == StackSound(<<>>)
BY DEF StackSound, IdsApart

LEMMA IdsOf ==
  ASSUME NEW ss \in Seq(Scope) PROVE Ids(ss) = {ss[i].id : i \in 1 .. Len(ss)}
BY DEF Ids

LEMMA AppendIds ==
  ASSUME NEW ss \in Seq(Scope), NEW s \in Scope
  PROVE  Ids(Append(ss, s)) = Ids(ss) \cup {s.id}
<1>1. PICK ns : ns = Append(ss, s)
  OBVIOUS
<1>2. PICK n \in Nat : n = Len(ss)
  OBVIOUS
<1>3. ns \in Seq(Scope) /\ Len(ns) = n + 1 /\ ns[n + 1] = s /\ \A i \in 1 .. n : ns[i] = ss[i]
  BY <1>1, <1>2
<1>4. Ids(ns) = {ns[i].id : i \in 1 .. n + 1} /\ Ids(ss) = {ss[i].id : i \in 1 .. n}
  BY <1>2, <1>3, IdsOf
<1>5. \A i \in 1 .. n + 1 : i = n + 1 \/ i \in 1 .. n
  BY <1>2
<1>6. Ids(ns) = Ids(ss) \cup {s.id}
  BY <1>3, <1>4, <1>5
<1> QED BY <1>1, <1>6

LEMMA Appended ==
  ASSUME NEW ss \in Seq(Scope), NEW s \in Scope, NEW ns, ns = Append(ss, s)
  PROVE  /\ ns \in Seq(Scope) /\ Len(ns) = Len(ss) + 1 /\ Len(ss) \in Nat
         /\ \A i \in 1 .. Len(ss) : ns[i] = ss[i]
         /\ ns[Len(ns)] = s
OBVIOUS

(* The scope on the top is replaced by one with the same bubble. *)
Replacing(ss, s, ns) == ss # <<>> /\ s.id = Last(ss).id /\ ns = Append(Front(ss), s)

LEMMA Replaced ==
  ASSUME NEW ss \in Seq(Scope), NEW s \in Scope, NEW ns, Replacing(ss, s, ns)
  PROVE  /\ ns \in Seq(Scope) /\ Len(ns) = Len(ss) /\ Len(ss) \in Nat /\ Len(ss) > 0
         /\ \A i \in 1 .. Len(ss) : i # Len(ss) => ns[i] = ss[i]
         /\ ns[Len(ss)] = s
         /\ \A i \in 1 .. Len(ss) : ns[i].id = ss[i].id
         /\ Ids(ns) = Ids(ss)
<1>1. /\ Front(ss) \in Seq(Scope) /\ Len(Front(ss)) = Len(ss) - 1 /\ Len(ss) > 0 /\ Len(ss) \in Nat
      /\ \A i \in 1 .. Len(ss) - 1 : Front(ss)[i] = ss[i]
      /\ Last(ss) = ss[Len(ss)]
  <2>1. /\ Front(ss) \in Seq(Scope) /\ Len(Front(ss)) = Len(ss) - 1 /\ Len(ss) > 0
        /\ \A i \in 1 .. Len(ss) - 1 : Front(ss)[i] = ss[i]
        /\ Last(ss) = ss[Len(ss)]
    BY Fronts, Zenon DEF Replacing
  <2> QED BY <2>1
<1>2. PICK fs \in Seq(Scope) : fs = Front(ss) /\ ns = Append(fs, s) /\ s.id = Last(ss).id
  BY <1>1 DEF Replacing
<1>3. /\ ns \in Seq(Scope) /\ Len(ns) = Len(fs) + 1
      /\ \A i \in 1 .. Len(fs) : ns[i] = fs[i]
      /\ ns[Len(ns)] = s
  BY <1>2, Appended
<1>4. /\ Len(ns) = Len(ss) /\ ns[Len(ss)] = s
      /\ \A i \in 1 .. Len(ss) : i # Len(ss) => ns[i] = ss[i]
  BY <1>1, <1>2, <1>3
<1>5. \A i \in 1 .. Len(ss) : ns[i].id = ss[i].id
  BY <1>1, <1>2, <1>4
<1>6. Ids(ns) = Ids(ss)
  <2>1. Ids(ns) = {ns[i].id : i \in 1 .. Len(ns)} /\ Ids(ss) = {ss[i].id : i \in 1 .. Len(ss)}
    BY <1>3, IdsOf
  <2> QED BY <1>4, <1>5, <2>1
<1> QED BY <1>1, <1>3, <1>4, <1>5, <1>6

LEMMA NewScopeType ==
  ASSUME made \in Nat, NEW form \in Form, NEW hasVa \in BOOLEAN, NEW m \in Module \cup {Main}
  PROVE  NewScope(form, hasVa, m) \in Scope
BY DEF NewScope, Scope

LEMMA ClosingIs ==
  ASSUME NEW s \in Scope, NEW why \in {"return", "error", "force"}
  PROVE  /\ Closing(s, why) \in Scope
         /\ Closing(s, why).id = s.id /\ Closing(s, why).va = s.va
         /\ Closing(s, why).form = s.form /\ Closing(s, why).exit = why
         /\ Closing(s, why).tbc = <<>>
         /\ Closing(s, why).todo = IF s.form = "stdin" THEN <<>> ELSE s.tbc
<1>1. /\ Closing(s, why).id = s.id /\ Closing(s, why).va = s.va
      /\ Closing(s, why).form = s.form /\ Closing(s, why).exit = why
      /\ Closing(s, why).tbc = <<>>
      /\ Closing(s, why).todo = IF s.form = "stdin" THEN <<>> ELSE s.tbc
  BY DEF Closing, Scope
<1>2. PICK e : e \in Seq(Nat) /\ e = <<>>
  <2>1. <<>> \in Seq(Nat)
    OBVIOUS
  <2> QED BY <2>1
<1>3. PICK d : d \in Seq(Nat) /\ d = IF s.form = "stdin" THEN <<>> ELSE s.tbc
  <2>1. <<>> \in Seq(Nat) /\ s.tbc \in Seq(Nat)
    BY DEF Scope
  <2>2. (IF s.form = "stdin" THEN <<>> ELSE s.tbc) \in Seq(Nat)
    BY <2>1, Zenon
  <2> QED BY <2>2
<1>4. PICK s1 \in Scope : s1 = [s EXCEPT !.exit = why]
  BY DEF Scope
<1>5. PICK s2 \in Scope : s2 = [s1 EXCEPT !.todo = d]
  BY <1>3 DEF Scope
<1>6. PICK s3 \in Scope : s3 = [s2 EXCEPT !.tbc = e]
  BY <1>2 DEF Scope
<1>7. Closing(s, why) = s3
  BY <1>2, <1>3, <1>4, <1>5, <1>6, Zenon DEF Closing
<1> QED BY <1>1, <1>7

LEMMA InjectiveNone == IsInjective(<<>>)
BY DEF IsInjective

LEMMA SoundPush ==
  ASSUME NEW ss, StackSound(ss), NEW s \in Scope, s.id \notin Ids(ss),
         s.exit = "run", s.tbc = <<>>, s.todo = <<>>, s.form = "close" => ss # <<>>,
         ss # <<>> => Last(ss).exit = "run" \/ s.form = "close"
  PROVE  StackSound(Append(ss, s))
<1>1. PICK ns : ns = Append(ss, s)
  OBVIOUS
<1>2. PICK n \in Nat : n = Len(ss) /\ ss \in Seq(Scope)
  BY DEF StackSound
<1>3. /\ ns \in Seq(Scope) /\ Len(ns) = n + 1
      /\ \A i \in 1 .. n : ns[i] = ss[i]
      /\ ns[n + 1] = s
  BY <1>1, <1>2, Appended
<1>4. \A i \in 1 .. n : ScopeSound(ss, i) /\ ss[i].id # s.id
  BY <1>2, IdsOf DEF StackSound
<1>5. ASSUME NEW i \in 1 .. n + 1 PROVE ScopeSound(ns, i)
  <2>1. CASE i = n + 1
    <3>1. n = 0 <=> ss = <<>>
      BY <1>2
    <3> QED BY <1>3, <2>1, <3>1, InjectiveNone DEF ScopeSound
  <2>2. CASE i # n + 1
    <3>1. i \in 1 .. n /\ ns[i] = ss[i] /\ ScopeSound(ss, i)
      BY <1>3, <1>4, <2>2
    <3>2. \A j \in 1 .. i : ns[j] = ss[j]
      BY <1>3, <3>1
    <3>3. ASSUME ss[i].exit # "run" PROVE ns[i + 1].form = "close"
      <4>1. CASE i = n
        <5>1. ss # <<>> /\ Last(ss) = ss[n]
          BY <1>2, <3>1, <4>1 DEF Last
        <5> QED BY <1>3, <3>3, <4>1, <5>1
      <4>2. CASE i # n
        <5>1. i + 1 \in 1 .. n
          BY <3>1, <4>2
        <5> QED BY <1>2, <1>3, <3>1, <3>3, <5>1 DEF ScopeSound
      <4> QED BY <4>1, <4>2
    <3> QED BY <3>1, <3>2, <3>3 DEF ScopeSound
  <2> QED BY <2>1, <2>2
<1>6. IdsApart(ns)
  BY <1>2, <1>3, <1>4 DEF IdsApart, StackSound
<1> QED BY <1>1, <1>3, <1>5, <1>6 DEF StackSound

LEMMA SoundReplace ==
  ASSUME NEW ss, StackSound(ss), ss # <<>>, NEW s \in Scope,
         s.id = Last(ss).id, s.form = Last(ss).form,
         s.exit = "run" => s.todo = <<>>,
         s.exit # "run" => s.tbc = <<>>,
         s.exit = "force" => Gateless(ss),
         IsInjective(s.tbc), IsInjective(s.todo)
  PROVE  StackSound(Append(Front(ss), s))
<1>1. PICK ns : ns = Append(Front(ss), s)
  OBVIOUS
<1>2. PICK n \in Nat : n = Len(ss) /\ n > 0 /\ ss \in Seq(Scope) /\ Last(ss) = ss[n]
  BY DEF StackSound, Last
<1>3. /\ ns \in Seq(Scope) /\ Len(ns) = n
      /\ \A i \in 1 .. n : i # n => ns[i] = ss[i]
      /\ ns[n] = s
      /\ \A i \in 1 .. n : ns[i].id = ss[i].id
  <2>1. /\ ns \in Seq(Scope) /\ Len(ns) = Len(ss)
        /\ \A i \in 1 .. Len(ss) : i # Len(ss) => ns[i] = ss[i]
        /\ ns[Len(ss)] = s
        /\ \A i \in 1 .. Len(ss) : ns[i].id = ss[i].id
    <3>1. ss \in Seq(Scope) /\ Replacing(ss, s, ns)
      BY <1>1, <1>2 DEF Replacing
    <3> QED BY <3>1, Replaced
  <2> QED BY <1>2, <2>1
<1>4. \A i \in 1 .. n : ScopeSound(ss, i) /\ ns[i].form = ss[i].form
  BY <1>2, <1>3 DEF StackSound
<1>5. ASSUME NEW i \in 1 .. n PROVE ScopeSound(ns, i)
  <2>1. CASE i = n
    <3>1. s.exit = "force" => \A j \in 1 .. n : ns[j].form \notin Gate
      BY <1>2, <1>4 DEF Gateless
    <3>2. s.form = "close" => n # 1
      BY <1>2, <1>4 DEF ScopeSound
    <3> QED BY <1>3, <2>1, <3>1, <3>2 DEF ScopeSound
  <2>2. CASE i # n
    <3>1. ns[i] = ss[i] /\ ScopeSound(ss, i) /\ i < n /\ i + 1 \in 1 .. n
      BY <1>3, <1>4, <2>2
    <3>2. ns[i + 1].form = ss[i + 1].form
      BY <1>4, <3>1
    <3>3. \A j \in 1 .. i : ns[j].form = ss[j].form
      BY <1>4, <3>1
    <3> QED BY <1>2, <1>3, <3>1, <3>2, <3>3 DEF ScopeSound
  <2> QED BY <2>1, <2>2
<1>6. IdsApart(ns)
  BY <1>2, <1>3 DEF IdsApart, StackSound
<1> QED BY <1>1, <1>3, <1>5, <1>6 DEF StackSound

LEMMA SoundPrefix ==
  ASSUME NEW ss, StackSound(ss), NEW n \in 0 .. Len(ss)
  PROVE  StackSound(SubSeq(ss, 1, n))
<1>1. PICK ns : ns = SubSeq(ss, 1, n)
  OBVIOUS
<1>2. ss \in Seq(Scope) /\ n \in Nat /\ n <= Len(ss) /\ Len(ss) \in Nat
  BY DEF StackSound
<1>3. ns \in Seq(Scope) /\ Len(ns) = n /\ \A i \in 1 .. n : ns[i] = ss[i]
  BY <1>1, <1>2
<1>4. ASSUME NEW i \in 1 .. n PROVE ScopeSound(ns, i)
  <2>1. ScopeSound(ss, i) /\ ns[i] = ss[i] /\ \A j \in 1 .. i : ns[j] = ss[j]
    BY <1>2, <1>3 DEF StackSound
  <2>2. i < n => ns[i + 1] = ss[i + 1] /\ i < Len(ss)
    BY <1>2, <1>3
  <2> QED BY <1>3, <2>1, <2>2 DEF ScopeSound
<1>5. IdsApart(ns)
  BY <1>2, <1>3 DEF IdsApart, StackSound
<1> QED BY <1>1, <1>3, <1>4, <1>5 DEF StackSound

-----------------------------------------------------------------------------
(* Sequences without repetition *)

LEMMA AppendSet ==
  ASSUME NEW S, NEW s \in Seq(S), NEW x \in S
  PROVE  /\ Append(s, x) \in Seq(S) /\ Append(s, x) # <<>>
         /\ ToSet(Append(s, x)) = ToSet(s) \cup {x}
         /\ Last(Append(s, x)) = x
         /\ IsInjective(s) /\ x \notin ToSet(s) => IsInjective(Append(s, x))
<1>0. Append(s, x) \in Seq(S)
  OBVIOUS
<1>1. PICK u \in Seq(S) : u = Append(s, x)
  BY <1>0
<1>2. PICK n \in Nat : n = Len(s)
  OBVIOUS
<1>3. /\ Len(u) = n + 1 /\ u[n + 1] = x /\ \A i \in 1 .. n : u[i] = s[i]
      /\ DOMAIN u = 1 .. n + 1 /\ DOMAIN s = 1 .. n
  BY <1>1, <1>2
<1>4. u # <<>> /\ Last(u) = x
  BY <1>3 DEF Last
<1>5. ToSet(u) = ToSet(s) \cup {x}
  <2>1. \A i \in 1 .. n + 1 : i = n + 1 \/ i \in 1 .. n
    OBVIOUS
  <2> QED BY <1>3, <2>1 DEF ToSet
<1>6. ASSUME IsInjective(s), x \notin ToSet(s) PROVE IsInjective(u)
  <2>1. \A i \in 1 .. n : s[i] # x
    BY <1>3, <1>6 DEF ToSet
  <2>2. \A i, j \in 1 .. n : s[i] = s[j] => i = j
    BY <1>3, <1>6 DEF IsInjective
  <2>3. \A i, j \in 1 .. n + 1 : u[i] = u[j] => i = j
    BY <1>3, <2>1, <2>2
  <2> QED BY <1>3, <2>3 DEF IsInjective
<1> QED BY <1>1, <1>4, <1>5, <1>6

LEMMA AppendToSet ==
  ASSUME NEW S, NEW s \in Seq(S), NEW x \in S
  PROVE  ToSet(Append(s, x)) = ToSet(s) \cup {x}
BY AppendSet

LEMMA FrontSet ==
  ASSUME NEW S, NEW s \in Seq(S), s # <<>>, IsInjective(s)
  PROVE  /\ Front(s) \in Seq(S) /\ IsInjective(Front(s))
         /\ ToSet(Front(s)) = ToSet(s) \ {Last(s)}
         /\ Last(s) \in ToSet(s)
<1>1. /\ Front(s) \in Seq(S) /\ Len(Front(s)) = Len(s) - 1 /\ Len(s) > 0
      /\ \A i \in 1 .. Len(s) - 1 : Front(s)[i] = s[i]
      /\ Last(s) = s[Len(s)] /\ Last(s) \in S
      /\ ToSet(s) = ToSet(Front(s)) \cup {Last(s)}
  BY Fronts
<1>2. PICK n \in Nat : n = Len(s)
  OBVIOUS
<1>3. DOMAIN s = 1 .. n /\ DOMAIN Front(s) = 1 .. n - 1
  BY <1>1, <1>2
<1>4. \A i, j \in 1 .. n : s[i] = s[j] => i = j
  BY <1>3 DEF IsInjective
<1>5. IsInjective(Front(s))
  BY <1>1, <1>2, <1>3, <1>4 DEF IsInjective
<1>6. Last(s) \notin ToSet(Front(s))
  BY <1>1, <1>2, <1>3, <1>4 DEF ToSet
<1> QED BY <1>1, <1>5, <1>6

LEMMA SeqWiden ==
  ASSUME NEW S, NEW T, S \subseteq T, NEW s \in Seq(S) PROVE s \in Seq(T)
OBVIOUS

-----------------------------------------------------------------------------
(* All stacks and the history *)

Pending(s) == ToSet(s.tbc) \cup ToSet(s.todo)
IsPending(v, ss) == \E i \in 1 .. Len(ss) : v \in Pending(ss[i])

(* What the history says of a scope. *)
Known(s) ==
  /\ s.id \in 1 .. made
  /\ s.form = "stdin" => s.id \in lost
  /\ \A v \in Pending(s) : v \in DOMAIN owner /\ owner[v] = s.id /\ closings[v] = 0

AllKnown(ss) == \A i \in 1 .. Len(ss) : Known(ss[i])

Apart == \A t, u \in Thread : t # u => Ids(stack[t]) \cap Ids(stack[u]) = {}

Settled ==
  \A v \in DOMAIN owner :
    \/ closings[v] = 1
    \/ closings[v] = 0 /\ (owner[v] \in lost \/ \E t \in Thread : IsPending(v, stack[t]))

NoneCollected == \A t \in Coroutine : status[t] # "collected"

HeapTypes ==
  /\ made \in Nat /\ live \in Seq(1 .. made) /\ va \in [Thread -> Seq(0 .. made)]
  /\ owner \in Seq(1 .. made) /\ closings \in [1 .. Len(owner) -> Nat]
  /\ lost \subseteq 1 .. made

HeapInv ==
  /\ HeapTypes
  /\ stack \in [Thread -> Seq(Scope)]
  /\ \A t \in Thread : StackSound(stack[t]) /\ AllKnown(stack[t])
  /\ Apart
  /\ Settled
  /\ LiveEnvKept
  /\ VarargsKept

(* A step in which the stack of t becomes ns, and what it must do. *)
Grown(t) ==
  /\ made <= made' /\ lost \subseteq lost'
  /\ \A v \in DOMAIN owner :
       /\ v \in DOMAIN owner' /\ owner'[v] = owner[v]
       /\ closings'[v] = closings[v] \/ owner[v] \in Ids(stack[t])

SettledBy(t, ns) ==
  \A v \in DOMAIN owner' :
    \/ closings'[v] = 1
    \/ /\ closings'[v] = 0
       /\ \/ owner'[v] \in lost'
          \/ IsPending(v, ns)
          \/ \E u \in Thread : u # t /\ IsPending(v, stack[u])

FramedBy(t, ns) ==
  /\ Ids(ns) \subseteq ToSet(live')
  /\ ToSet(live) \ Ids(stack[t]) \subseteq ToSet(live')
  /\ NoneCollected' => NoneCollected /\ va' = [va EXCEPT ![t] = Varargs(Bottom(t), ns)]

Moves(t, ns) ==
  /\ stack' = [stack EXCEPT ![t] = ns]
  /\ StackSound(ns) /\ AllKnown(ns)'
  /\ \A x \in Ids(ns) : x \in Ids(stack[t]) \/ x > made
  /\ Grown(t) /\ SettledBy(t, ns) /\ FramedBy(t, ns)
  /\ HeapTypes'

LEMMA MovesKeep ==
  ASSUME HeapInv, NEW t \in Thread, NEW ns, Moves(t, ns) PROVE HeapInv'
<1>1. /\ HeapTypes' /\ stack' = [stack EXCEPT ![t] = ns] /\ stack \in [Thread -> Seq(Scope)]
      /\ StackSound(ns) /\ AllKnown(ns)' /\ ns \in Seq(Scope)
      /\ \A u \in Thread : StackSound(stack[u]) /\ AllKnown(stack[u])
      /\ Grown(t)
  BY DEF Moves, HeapInv, StackSound
<1>2. stack' \in [Thread -> Seq(Scope)] /\ stack'[t] = ns
      /\ \A u \in Thread : u # t => stack'[u] = stack[u]
  BY <1>1
<1>3. \A u \in Thread : \A x \in Ids(stack[u]) : x \in 1 .. made
  <2>1. ASSUME NEW u \in Thread, NEW x \in Ids(stack[u]) PROVE x \in 1 .. made
    <3>1. stack[u] \in Seq(Scope) /\ AllKnown(stack[u])
      BY <1>1
    <3>2. PICK i \in 1 .. Len(stack[u]) : x = stack[u][i].id
      BY <2>1, <3>1, IdsOf
    <3> QED BY <3>1, <3>2 DEF AllKnown, Known
  <2> QED BY <2>1
<1>4. Apart'
  <2>1. \A x \in Ids(ns) : x \in Ids(stack[t]) \/ x > made
    BY DEF Moves
  <2>2. \A u \in Thread : u # t => Ids(ns) \cap Ids(stack[u]) = {}
    <3>1. \A u \in Thread : u # t => Ids(stack[t]) \cap Ids(stack[u]) = {}
      BY DEF HeapInv, Apart
    <3>2. \A u \in Thread : \A x \in Ids(stack[u]) : ~ x > made
      BY <1>3 DEF HeapInv, HeapTypes
    <3> QED BY <2>1, <3>1, <3>2
  <2>3. \A u \in Thread : Ids(stack[u])' = Ids(stack'[u])
    BY DEF Ids
  <2>4. ASSUME NEW u \in Thread, NEW w \in Thread, u # w
        PROVE  Ids(stack'[u]) \cap Ids(stack'[w]) = {}
    <3>1. CASE u = t
      BY <1>2, <2>2, <2>4, <3>1
    <3>2. CASE w = t
      BY <1>2, <2>2, <2>4, <3>2
    <3>3. CASE u # t /\ w # t
      BY <1>2, <2>4, <3>3 DEF HeapInv, Apart
    <3> QED BY <3>1, <3>2, <3>3
  <2> QED BY <2>3, <2>4 DEF Apart
<1>5. ASSUME NEW u \in Thread PROVE StackSound(stack[u])' /\ AllKnown(stack[u])'
  <2>1. CASE u = t
    BY <1>1, <1>2, <2>1 DEF StackSound, ScopeSound, IdsApart, AllKnown, Known
  <2>2. CASE u # t
    <3>1. stack'[u] = stack[u] /\ StackSound(stack[u]) /\ AllKnown(stack[u])
      BY <1>1, <1>2, <2>2
    <3>2. ASSUME NEW i \in 1 .. Len(stack[u]) PROVE Known(stack[u][i])'
      <4>1. PICK s : s = stack[u][i] /\ Known(s) /\ s.id \in Ids(stack[u])
        BY <1>1, <3>1, IdsOf DEF AllKnown
      <4>2. s.id \notin Ids(stack[t])
        BY <2>2, <4>1 DEF HeapInv, Apart
      <4>3. s.id \in 1 .. made' /\ (s.form = "stdin" => s.id \in lost')
        BY <1>1, <4>1 DEF Known, Grown, HeapInv, HeapTypes
      <4>4. ASSUME NEW v \in Pending(s)
            PROVE  v \in DOMAIN owner' /\ owner'[v] = s.id /\ closings'[v] = 0
        BY <1>1, <4>1, <4>2, <4>4 DEF Known, Grown
      <4> QED BY <3>1, <4>1, <4>3, <4>4 DEF Known, Pending
    <3> QED BY <3>1, <3>2 DEF StackSound, ScopeSound, IdsApart, AllKnown
  <2> QED BY <2>1, <2>2
<1>6. Settled'
  <2>1. \A v : IsPending(v, ns) => IsPending(v, stack'[t])
    BY <1>2
  <2>2. \A v : \A u \in Thread : u # t /\ IsPending(v, stack[u]) => IsPending(v, stack'[u])
    BY <1>2
  <2>3. SettledBy(t, ns)
    BY DEF Moves
  <2>4. \A v : \A u \in Thread : IsPending(v, stack'[u]) <=> IsPending(v, stack[u])'
    BY DEF IsPending, Pending
  <2> QED BY <2>1, <2>2, <2>3, <2>4 DEF Settled, SettledBy
<1>7. LiveEnvKept'
  <2>1. Ids(ns) \subseteq ToSet(live') /\ ToSet(live) \ Ids(stack[t]) \subseteq ToSet(live')
    BY DEF Moves, FramedBy
  <2>2. ASSUME NEW u \in Thread PROVE Ids(stack'[u]) \subseteq ToSet(live')
    <3>1. CASE u = t
      BY <1>2, <2>1, <3>1
    <3>2. CASE u # t
      BY <1>2, <2>1, <3>2 DEF HeapInv, LiveEnvKept, Apart
    <3> QED BY <3>1, <3>2
  <2>3. \A u \in Thread : (Ids(stack[u]) \subseteq ToSet(live))' <=> Ids(stack'[u]) \subseteq ToSet(live')
    BY DEF Ids, ToSet
  <2> QED BY <2>2, <2>3 DEF LiveEnvKept
<1>8. VarargsKept'
  <2>1. SUFFICES ASSUME NoneCollected' PROVE \A u \in Thread : va'[u] = Varargs(Bottom(u), stack'[u])
    BY DEF VarargsKept, OpenVarargs, NoneCollected, Bottom, Varargs
  <2>2. NoneCollected /\ va' = [va EXCEPT ![t] = Varargs(Bottom(t), ns)]
    BY <2>1 DEF Moves, FramedBy
  <2>3. \A u \in Thread : va[u] = Varargs(Bottom(u), stack[u])
    BY <2>2 DEF HeapInv, VarargsKept, OpenVarargs, NoneCollected
  <2>4. va \in [Thread -> Seq(0 .. made)]
    BY DEF HeapInv, HeapTypes
  <2> QED BY <1>2, <2>2, <2>3, <2>4
<1> QED BY <1>1, <1>2, <1>4, <1>5, <1>6, <1>7, <1>8 DEF HeapInv

-----------------------------------------------------------------------------
(* The ways a stack moves *)

LEMMA KnownStill ==
  ASSUME NEW s, Known(s), made <= made', made \in Nat, made' \in Nat, lost \subseteq lost',
         owner' = owner, closings' = closings
  PROVE  Known(s)'
<1>1. s.id \in 1 .. made' /\ (s.form = "stdin" => s.id \in lost')
  BY DEF Known
<1>2. \A v \in Pending(s) : v \in DOMAIN owner' /\ owner'[v] = s.id /\ closings'[v] = 0
  BY DEF Known
<1> QED BY <1>1, <1>2 DEF Known, Pending

(* Nothing is declared, no handler is called, and what is not pending in t *)
(* any longer was lost.                                                    *)
Resting(t, ns) ==
  /\ owner' = owner /\ closings' = closings
  /\ made <= made' /\ lost \subseteq lost'
  /\ \A v \in DOMAIN owner : IsPending(v, stack[t]) => IsPending(v, ns) \/ owner[v] \in lost'

LEMMA RestingSettles ==
  ASSUME Settled, NEW t \in Thread, NEW ns, Resting(t, ns)
  PROVE  Grown(t) /\ SettledBy(t, ns)
<1>1. Grown(t)
  BY DEF Grown, Resting
<1>2. ASSUME NEW v \in DOMAIN owner, closings[v] # 1
      PROVE  /\ closings[v] = 0
             /\ \/ owner[v] \in lost'
                \/ IsPending(v, ns)
                \/ \E u \in Thread : u # t /\ IsPending(v, stack[u])
  <2>1. closings[v] = 0 /\ (owner[v] \in lost \/ \E u \in Thread : IsPending(v, stack[u]))
    BY <1>2 DEF Settled
  <2> QED BY <2>1 DEF Resting
<1>3. SettledBy(t, ns)
  BY <1>2 DEF SettledBy, Resting
<1> QED BY <1>1, <1>3

PushStep(t, s) ==
  /\ Push(t, s)
  /\ s.id = made + 1 /\ s.exit = "run" /\ s.tbc = <<>> /\ s.todo = <<>> /\ s.form # "close"
  /\ stack[t] # <<>> => Last(stack[t]).exit = "run"
  /\ lost \subseteq lost' /\ lost' \subseteq 1 .. made + 1
  /\ s.form = "stdin" => s.id \in lost'
  /\ UNCHANGED <<owner, closings>>
  /\ NoneCollected' => NoneCollected

LEMMA PushMoves ==
  ASSUME HeapInv, NEW t \in Thread, NEW s \in Scope, PushStep(t, s)
  PROVE  Moves(t, Append(stack[t], s))
<1>1. PICK ss \in Seq(Scope) : ss = stack[t] /\ StackSound(ss) /\ AllKnown(ss)
  BY DEF HeapInv
<1>2. PICK ns : ns = Append(ss, s)
  OBVIOUS
<1>3. /\ ns \in Seq(Scope) /\ Len(ns) = Len(ss) + 1 /\ Len(ss) \in Nat
      /\ \A i \in 1 .. Len(ss) : ns[i] = ss[i]
      /\ ns[Len(ns)] = s
      /\ Ids(ns) = Ids(ss) \cup {s.id}
  <2>1. /\ ns \in Seq(Scope) /\ Len(ns) = Len(ss) + 1 /\ Len(ss) \in Nat
        /\ \A i \in 1 .. Len(ss) : ns[i] = ss[i]
        /\ ns[Len(ns)] = s
    BY <1>2, Appended
  <2>2. Ids(ns) = Ids(ss) \cup {s.id}
    BY <1>2, AppendIds
  <2> QED BY <2>1, <2>2
<1>4. /\ made \in Nat /\ made' = made + 1 /\ s.id = made + 1 /\ made' \in Nat
      /\ live' = Append(live, s.id)
      /\ va' = IF s.va THEN [va EXCEPT ![t] = Append(@, s.id)] ELSE va
      /\ stack' = [stack EXCEPT ![t] = ns]
      /\ owner' = owner /\ closings' = closings /\ lost \subseteq lost' /\ lost' \subseteq 1 .. made'
  BY <1>1, <1>2 DEF PushStep, Push, VarargsOf, HeapInv, HeapTypes
<1>5. /\ live \in Seq(1 .. made) /\ va \in [Thread -> Seq(0 .. made)]
      /\ owner \in Seq(1 .. made) /\ closings \in [1 .. Len(owner) -> Nat]
  BY DEF HeapInv, HeapTypes
<1>6. \A x \in Ids(ss) : x \in 1 .. made
  BY <1>1, IdsOf DEF AllKnown, Known
<1>7. StackSound(ns)
  <2>1. s.id \notin Ids(ss)
    BY <1>4, <1>6
  <2> QED BY <1>1, <1>2, <2>1, SoundPush DEF PushStep
<1>8. AllKnown(ns)'
  <2>1. ASSUME NEW i \in 1 .. Len(ns) PROVE Known(ns[i])'
    <3>1. CASE i = Len(ns)
      <4>1. Pending(s) = {}
        BY DEF PushStep, Pending, ToSet
      <4> QED BY <1>3, <1>4, <3>1, <4>1 DEF Known, Pending, PushStep
    <3>2. CASE i # Len(ns)
      <4>1. i \in 1 .. Len(ss) /\ ns[i] = ss[i] /\ Known(ss[i])
        BY <1>1, <1>3, <3>2 DEF AllKnown
      <4> QED BY <1>4, <4>1, KnownStill
    <3> QED BY <3>1, <3>2
  <2> QED BY <2>1 DEF AllKnown
<1>9. \A x \in Ids(ns) : x \in Ids(stack[t]) \/ x > made
  BY <1>1, <1>3, <1>4
<1>10. Resting(t, ns)
  <2>1. \A v : IsPending(v, ss) => IsPending(v, ns)
    BY <1>3 DEF IsPending
  <2> QED BY <1>1, <1>4, <2>1 DEF Resting
<1>11. Grown(t) /\ SettledBy(t, ns)
  BY <1>10, RestingSettles DEF HeapInv
<1>12. live' \in Seq(1 .. made') /\ ToSet(live') = ToSet(live) \cup {s.id}
  <2>1. live \in Seq(1 .. made') /\ s.id \in 1 .. made'
    BY <1>4, <1>5
  <2>2. Append(live, s.id) \in Seq(1 .. made')
    BY <2>1
  <2>3. ToSet(Append(live, s.id)) = ToSet(live) \cup {s.id}
    <3>1. PICK S, x : S = 1 .. made' /\ x = s.id
      OBVIOUS
    <3>2. live \in Seq(S) /\ x \in S
      BY <2>1, <3>1
    <3>3. ToSet(Append(live, x)) = ToSet(live) \cup {x}
      BY <3>2, AppendToSet
    <3> QED BY <3>1, <3>3
  <2> QED BY <1>4, <2>2, <2>3
<1>13. va' \in [Thread -> Seq(0 .. made')]
  <2>1. \A u \in Thread : va[u] \in Seq(0 .. made') /\ s.id \in 0 .. made'
    BY <1>4, <1>5
  <2>2. Append(va[t], s.id) \in Seq(0 .. made')
    BY <2>1
  <2> QED BY <1>4, <1>5, <2>1, <2>2
<1>14. HeapTypes'
  <2>1. owner' \in Seq(1 .. made')
    BY <1>4, <1>5
  <2> QED BY <1>4, <1>5, <1>12, <1>13, <2>1 DEF HeapTypes
<1>15. FramedBy(t, ns)
  <2>1. Ids(ns) \subseteq ToSet(live') /\ ToSet(live) \ Ids(ss) \subseteq ToSet(live')
    BY <1>1, <1>3, <1>12 DEF HeapInv, LiveEnvKept
  <2>2. ASSUME NoneCollected'
        PROVE  NoneCollected /\ va' = [va EXCEPT ![t] = Varargs(Bottom(t), ns)]
    <3>1. NoneCollected
      BY <2>2 DEF PushStep
    <3>2. va[t] = Varargs(Bottom(t), ss)
      BY <1>1, <3>1 DEF HeapInv, VarargsKept, OpenVarargs, NoneCollected
    <3>3. Varargs(Bottom(t), ns) = With(va[t], s)
      BY <1>1, <1>2, <3>2, VarargsAppend
    <3>4. CASE s.va
      BY <1>4, <3>3, <3>4, <3>1 DEF With
    <3>5. CASE ~ s.va
      BY <1>4, <1>5, <3>3, <3>5, <3>1 DEF With
    <3> QED BY <3>4, <3>5
  <2> QED BY <1>1, <2>1, <2>2 DEF FramedBy
<1>16. Moves(t, ns)
  BY <1>4, <1>7, <1>8, <1>9, <1>11, <1>14, <1>15, Zenon DEF Moves
<1> QED BY <1>1, <1>2, <1>16

LEMMA ToSetNone == ToSet(<<>>) = {}
BY DEF ToSet

(* A scope begins to be left. *)
CanClose(ss, why) ==
  /\ StackSound(ss) /\ ss # <<>> /\ why \in {"return", "error", "force"}
  /\ why = "force" => Gateless(ss)

ClosedTo(ss, why, ns) ==
  /\ StackSound(ns) /\ Len(ns) = Len(ss) /\ Ids(ns) = Ids(ss)
  /\ \A i \in 1 .. Len(ss) : i # Len(ss) => ns[i] = ss[i]
  /\ ns[Len(ss)] = Closing(ss[Len(ss)], why)
  /\ \A i \in 1 .. Len(ss) : ns[i].id = ss[i].id /\ ns[i].va = ss[i].va

LEMMA ClosedTop ==
  ASSUME NEW ss, NEW why, CanClose(ss, why)
  PROVE  ClosedTo(ss, why, Append(Front(ss), Closing(Last(ss), why)))
<1>1. PICK n : n = Len(ss) /\ ss \in Seq(Scope) /\ n \in Nat
  BY DEF CanClose, StackSound
<1>2. PICK s \in Scope : s = ss[n] /\ s = Last(ss) /\ n > 0
  BY <1>1 DEF CanClose, Last
<1>3. PICK c : c = Closing(s, why)
  OBVIOUS
<1>4. /\ c \in Scope /\ c.id = s.id /\ c.va = s.va /\ c.form = s.form /\ c.exit = why
      /\ c.tbc = <<>> /\ c.todo = IF s.form = "stdin" THEN <<>> ELSE s.tbc
  BY <1>3, ClosingIs DEF CanClose
<1>5. PICK ns : ns = Append(Front(ss), c)
  OBVIOUS
<1>6. Replacing(ss, c, ns)
  BY <1>2, <1>4, <1>5 DEF Replacing, CanClose
<1>7. /\ Len(ns) = n
      /\ \A i \in 1 .. n : i # n => ns[i] = ss[i]
      /\ ns[n] = c
      /\ \A i \in 1 .. n : ns[i].id = ss[i].id
      /\ Ids(ns) = Ids(ss)
  BY <1>1, <1>4, <1>6, Replaced
<1>8. StackSound(ns)
  <2>0. ScopeSound(ss, n)
    <3>1. n \in 1 .. n
      BY <1>1, <1>2
    <3> QED BY <1>1, <3>1 DEF CanClose, StackSound
  <2>1. IsInjective(s.tbc)
    BY <1>2, <2>0 DEF ScopeSound
  <2>2. IsInjective(c.tbc) /\ IsInjective(c.todo)
    BY <1>4, <2>1, InjectiveNone
  <2>3. c.exit # "run" /\ (c.exit = "force" => Gateless(ss))
    BY <1>4 DEF CanClose
  <2>4. StackSound(ss) /\ ss # <<>> /\ c.id = Last(ss).id /\ c.form = Last(ss).form
    BY <1>2, <1>4 DEF CanClose
  <2>5. StackSound(Append(Front(ss), c))
    BY <1>4, <2>2, <2>3, <2>4, SoundReplace
  <2> QED BY <1>5, <2>5
<1>9. \A i \in 1 .. n : ns[i].va = ss[i].va
  BY <1>2, <1>4, <1>7
<1>10. ClosedTo(ss, why, ns)
  BY <1>1, <1>2, <1>3, <1>7, <1>8, <1>9 DEF ClosedTo
<1> QED BY <1>2, <1>3, <1>5, <1>10

(* What the closing of a scope leaves of the history and of the pending *)
(* variables, when it was running or is lost.                           *)
Still ==
  /\ owner' = owner /\ closings' = closings
  /\ made <= made' /\ made \in Nat /\ made' \in Nat /\ lost \subseteq lost'

CanForget(ss) == Last(ss).exit = "run" \/ Last(ss).id \in lost'

LEMMA ClosedPending ==
  ASSUME Still, NEW ss, NEW why, NEW ns, CanClose(ss, why), ClosedTo(ss, why, ns),
         AllKnown(ss), CanForget(ss)
  PROVE  /\ AllKnown(ns)'
         /\ \A v \in DOMAIN owner : IsPending(v, ss) => IsPending(v, ns) \/ owner[v] \in lost'
<1>1. PICK n : n = Len(ss) /\ ss \in Seq(Scope) /\ n \in Nat
  BY DEF CanClose, StackSound
<1>2. PICK s \in Scope : s = ss[n] /\ s = Last(ss) /\ n > 0
  BY <1>1 DEF CanClose, Last
<1>3. PICK c : c = Closing(s, why)
  OBVIOUS
<1>4. /\ c \in Scope /\ c.id = s.id /\ c.form = s.form
      /\ c.tbc = <<>> /\ c.todo = IF s.form = "stdin" THEN <<>> ELSE s.tbc
  BY <1>3, ClosingIs DEF CanClose
<1>5. Len(ns) = n /\ ns[n] = c /\ \A i \in 1 .. n : i # n => ns[i] = ss[i]
  BY <1>1, <1>2, <1>3 DEF ClosedTo
<1>6. Pending(c) \subseteq Pending(s)
  BY <1>4 DEF Pending, ToSet
<1>7. Known(s) /\ \A i \in 1 .. n : Known(ss[i])
  <2>1. n \in 1 .. n
    BY <1>1, <1>2
  <2>2. \A i \in 1 .. n : Known(ss[i])
    BY <1>1 DEF AllKnown
  <2> QED BY <1>2, <2>1, <2>2
<1>8. Known(c)
  BY <1>4, <1>6, <1>7 DEF Known
<1>9. AllKnown(ns)'
  <2>1. \A i \in 1 .. n : Known(ns[i])
    BY <1>5, <1>7, <1>8
  <2>2. ASSUME NEW i \in 1 .. n PROVE Known(ns[i])'
    BY <2>1, KnownStill DEF Still
  <2> QED BY <1>5, <2>2 DEF AllKnown
<1>10. ASSUME NEW v \in DOMAIN owner, IsPending(v, ss), owner[v] \notin lost'
       PROVE  IsPending(v, ns)
  <2>1. PICK i \in 1 .. n : v \in Pending(ss[i])
    BY <1>1, <1>10 DEF IsPending
  <2>2. CASE i # n
    BY <1>5, <2>1, <2>2 DEF IsPending
  <2>3. CASE i = n
    <3>1. owner[v] = s.id /\ (s.form = "stdin" => s.id \in lost)
      BY <1>2, <1>7, <2>1, <2>3 DEF Known
    <3>2. s.form # "stdin" /\ s.exit = "run"
      BY <1>2, <1>10, <3>1 DEF CanForget, Still
    <3>3. s.todo = <<>>
      <4>1. ScopeSound(ss, i)
        BY <1>1, <2>1 DEF CanClose, StackSound
      <4> QED BY <1>2, <2>3, <3>2, <4>1 DEF ScopeSound
    <3>4. v \in ToSet(s.tbc)
      <4>1. v \in ToSet(s.tbc) \cup ToSet(s.todo)
        BY <1>2, <2>1, <2>3 DEF Pending
      <4>2. ToSet(s.todo) = {}
        BY <3>3, ToSetNone
      <4> QED BY <4>1, <4>2
    <3>5. v \in Pending(c)
      BY <1>4, <3>2, <3>4 DEF Pending
    <3> QED BY <1>2, <1>5, <3>5 DEF IsPending
  <2> QED BY <2>2, <2>3
<1> QED BY <1>9, <1>10

(* The varargs of a stack are those of one with the same scopes. *)
LEMMA ClosedVarargs ==
  ASSUME NEW ss, NEW why, NEW ns, CanClose(ss, why), ClosedTo(ss, why, ns), NEW b
  PROVE  Varargs(b, ns) = Varargs(b, ss)
<1>1. ss \in Seq(Scope) /\ ns \in Seq(Scope) /\ Len(ns) = Len(ss)
      /\ \A i \in 1 .. Len(ss) : ns[i].va = ss[i].va /\ ns[i].id = ss[i].id
  BY DEF CanClose, ClosedTo, StackSound
<1> QED BY <1>1, VarargsSame

CloseStep(t, why) ==
  /\ stack' = [stack EXCEPT ![t] = Append(Front(@), Closing(Last(@), why))]
  /\ CanClose(stack[t], why) /\ Last(stack[t]).exit = "run"
  /\ UNCHANGED <<live, va, made, owner, closings, lost>>
  /\ NoneCollected' => NoneCollected

LEMMA CloseMoves ==
  ASSUME HeapInv, NEW t \in Thread, NEW why, CloseStep(t, why)
  PROVE  Moves(t, Append(Front(stack[t]), Closing(Last(stack[t]), why)))
<1>1. PICK ss \in Seq(Scope) : ss = stack[t] /\ StackSound(ss) /\ AllKnown(ss) /\ CanClose(ss, why)
  BY DEF HeapInv, CloseStep
<1>2. PICK ns : ns = Append(Front(ss), Closing(Last(ss), why)) /\ ClosedTo(ss, why, ns)
  BY <1>1, ClosedTop
<1>3. stack' = [stack EXCEPT ![t] = ns] /\ UNCHANGED <<live, va, made, owner, closings, lost>>
  BY <1>1, <1>2 DEF CloseStep, HeapInv
<1>4. Still /\ CanForget(ss)
  BY <1>1, <1>3 DEF Still, CanForget, CloseStep, HeapInv, HeapTypes
<1>5. /\ AllKnown(ns)'
      /\ \A v \in DOMAIN owner : IsPending(v, ss) => IsPending(v, ns) \/ owner[v] \in lost'
  BY <1>1, <1>2, <1>4, ClosedPending
<1>6. Resting(t, ns)
  BY <1>1, <1>4, <1>5 DEF Resting, Still
<1>7. Grown(t) /\ SettledBy(t, ns)
  BY <1>6, RestingSettles DEF HeapInv
<1>8. StackSound(ns) /\ Ids(ns) = Ids(ss)
  BY <1>2 DEF ClosedTo
<1>9. HeapTypes'
  BY <1>3 DEF HeapInv, HeapTypes
<1>10. FramedBy(t, ns)
  <2>1. Ids(ns) \subseteq ToSet(live') /\ ToSet(live) \ Ids(ss) \subseteq ToSet(live')
    BY <1>1, <1>3, <1>8 DEF HeapInv, LiveEnvKept
  <2>2. ASSUME NoneCollected'
        PROVE  NoneCollected /\ va' = [va EXCEPT ![t] = Varargs(Bottom(t), ns)]
    <3>1. NoneCollected
      BY <2>2 DEF CloseStep
    <3>2. va[t] = Varargs(Bottom(t), ss)
      BY <1>1, <3>1 DEF HeapInv, VarargsKept, OpenVarargs, NoneCollected
    <3>3. Varargs(Bottom(t), ns) = va[t]
      BY <1>1, <1>2, <3>2, ClosedVarargs
    <3> QED BY <1>3, <3>1, <3>3 DEF HeapInv, HeapTypes
  <2> QED BY <1>1, <2>1, <2>2 DEF FramedBy
<1>11. Moves(t, ns)
  BY <1>1, <1>3, <1>5, <1>7, <1>8, <1>9, <1>10 DEF Moves
<1> QED BY <1>1, <1>2, <1>11

LEMMA ReplacedVarargs ==
  ASSUME NEW ss \in Seq(Scope), NEW s \in Scope, NEW ns, Replacing(ss, s, ns),
         s.va = Last(ss).va, NEW b
  PROVE  Varargs(b, ns) = Varargs(b, ss)
<1>1. /\ ns \in Seq(Scope) /\ Len(ns) = Len(ss) /\ Len(ss) \in Nat
      /\ \A i \in 1 .. Len(ss) : i # Len(ss) => ns[i] = ss[i]
      /\ ns[Len(ss)] = s
      /\ \A i \in 1 .. Len(ss) : ns[i].id = ss[i].id
  BY Replaced
<1>2. Last(ss) = ss[Len(ss)]
  BY DEF Last
<1>3. \A i \in 1 .. Len(ss) : ns[i].va = ss[i].va /\ ns[i].id = ss[i].id
  BY <1>1, <1>2
<1> QED BY <1>1, <1>3, VarargsSame

(* A variable is declared <close>. *)
Declared(s, v) == [s EXCEPT !.tbc = Append(@, v)]

LEMMA DeclaredIs ==
  ASSUME NEW s \in Scope, NEW v \in Nat, IsInjective(s.tbc), v \notin ToSet(s.tbc)
  PROVE  /\ Declared(s, v) \in Scope
         /\ Declared(s, v).id = s.id /\ Declared(s, v).form = s.form
         /\ Declared(s, v).exit = s.exit /\ Declared(s, v).todo = s.todo
         /\ Declared(s, v).va = s.va
         /\ IsInjective(Declared(s, v).tbc)
         /\ Pending(Declared(s, v)) = Pending(s) \cup {v}
<1>1. /\ Declared(s, v).id = s.id /\ Declared(s, v).form = s.form
      /\ Declared(s, v).exit = s.exit /\ Declared(s, v).todo = s.todo
      /\ Declared(s, v).va = s.va
      /\ Declared(s, v).tbc = Append(s.tbc, v)
  BY DEF Declared, Scope
<1>2. s.tbc \in Seq(Nat)
  BY DEF Scope
<1>3. /\ Append(s.tbc, v) \in Seq(Nat) /\ IsInjective(Append(s.tbc, v))
      /\ ToSet(Append(s.tbc, v)) = ToSet(s.tbc) \cup {v}
  BY <1>2, AppendSet
<1>4. Declared(s, v) \in Scope
  BY <1>3 DEF Declared, Scope
<1> QED BY <1>1, <1>3, <1>4 DEF Pending

DeclareStep(t) ==
  /\ stack[t] # <<>> /\ Last(stack[t]).exit = "run"
  /\ stack' = [stack EXCEPT ![t] = Append(Front(@), Declared(Last(@), Len(owner) + 1))]
  /\ owner' = Append(owner, Last(stack[t]).id)
  /\ closings' = Append(closings, 0)
  /\ UNCHANGED <<live, va, made, lost>>
  /\ NoneCollected' => NoneCollected

LEMMA HistoryGrows ==
  ASSUME HeapTypes, NEW x \in 1 .. made, owner' = Append(owner, x), closings' = Append(closings, 0)
  PROVE  \E L \in Nat :
           /\ L = Len(owner) /\ DOMAIN owner = 1 .. L /\ DOMAIN owner' = 1 .. L + 1
           /\ Len(owner') = L + 1 /\ owner' \in Seq(1 .. made)
           /\ closings' \in [1 .. L + 1 -> Nat]
           /\ \A v \in 1 .. L : owner'[v] = owner[v] /\ closings'[v] = closings[v]
           /\ owner'[L + 1] = x /\ closings'[L + 1] = 0
<1>1. PICK L \in Nat : L = Len(owner)
  BY DEF HeapTypes
<1>2. /\ DOMAIN owner = 1 .. L /\ DOMAIN owner' = 1 .. L + 1
      /\ Len(owner') = L + 1 /\ owner' \in Seq(1 .. made)
      /\ \A v \in 1 .. L : owner'[v] = owner[v]
      /\ owner'[L + 1] = x
  BY <1>1 DEF HeapTypes
<1>3. closings \in Seq(Nat) /\ Len(closings) = L
  <2>1. closings \in [1 .. L -> Nat]
    BY <1>1 DEF HeapTypes
  <2> QED BY <2>1
<1>4. /\ closings' \in [1 .. L + 1 -> Nat] /\ closings'[L + 1] = 0
      /\ \A v \in 1 .. L : closings'[v] = closings[v]
  <2>1. PICK c, d : c = closings /\ d = closings'
    OBVIOUS
  <2>2. c \in Seq(Nat) /\ Len(c) = L /\ d = Append(c, 0)
    BY <1>3, <2>1
  <2>3. /\ d \in Seq(Nat) /\ Len(d) = L + 1 /\ d[L + 1] = 0
        /\ \A v \in 1 .. L : d[v] = c[v]
    BY <2>2
  <2>4. d \in [1 .. L + 1 -> Nat]
    BY <2>3
  <2> QED BY <2>1, <2>3, <2>4
<1> QED BY <1>1, <1>2, <1>4

LEMMA DeclareMoves ==
  ASSUME HeapInv, NEW t \in Thread, DeclareStep(t)
  PROVE  Moves(t, Append(Front(stack[t]), Declared(Last(stack[t]), Len(owner) + 1)))
<1>1. PICK ss \in Seq(Scope) : ss = stack[t] /\ StackSound(ss) /\ AllKnown(ss) /\ ss # <<>>
  BY DEF HeapInv, DeclareStep
<1>2. PICK n \in Nat : n = Len(ss) /\ n > 0 /\ n \in 1 .. n
  BY <1>1
<1>3. PICK r \in Scope : r = ss[n] /\ r = Last(ss) /\ r.exit = "run"
  BY <1>1, <1>2 DEF Last, DeclareStep
<1>4. Known(r) /\ ScopeSound(ss, n)
  BY <1>1, <1>2, <1>3 DEF AllKnown, StackSound
<1>5. PICK L \in Nat :
        /\ L = Len(owner) /\ DOMAIN owner = 1 .. L /\ DOMAIN owner' = 1 .. L + 1
        /\ Len(owner') = L + 1 /\ owner' \in Seq(1 .. made)
        /\ closings' \in [1 .. L + 1 -> Nat]
        /\ \A v \in 1 .. L : owner'[v] = owner[v] /\ closings'[v] = closings[v]
        /\ owner'[L + 1] = r.id /\ closings'[L + 1] = 0
  <2>1. r.id \in 1 .. made /\ owner' = Append(owner, r.id) /\ closings' = Append(closings, 0)
    BY <1>1, <1>3, <1>4 DEF Known, DeclareStep
  <2> QED BY <2>1, HistoryGrows DEF HeapInv
<1>6. PICK w : w = L + 1
  OBVIOUS
<1>7. PICK s : s = Declared(r, w)
  OBVIOUS
<1>8. /\ s \in Scope /\ s.id = r.id /\ s.form = r.form /\ s.exit = r.exit /\ s.todo = r.todo
      /\ s.va = r.va /\ IsInjective(s.tbc) /\ Pending(s) = Pending(r) \cup {w}
  <2>1. IsInjective(r.tbc)
    BY <1>3, <1>4 DEF ScopeSound
  <2>2. w \notin Pending(r)
    BY <1>4, <1>5, <1>6 DEF Known
  <2>3. w \notin ToSet(r.tbc) /\ w \in Nat
    BY <1>6, <2>2 DEF Pending
  <2> QED BY <1>7, <2>1, <2>3, DeclaredIs
<1>9. PICK ns : ns = Append(Front(ss), s)
  OBVIOUS
<1>10. Replacing(ss, s, ns)
  BY <1>1, <1>3, <1>8, <1>9 DEF Replacing
<1>11. /\ ns \in Seq(Scope) /\ Len(ns) = n
       /\ \A i \in 1 .. n : i # n => ns[i] = ss[i]
       /\ ns[n] = s
       /\ Ids(ns) = Ids(ss)
  BY <1>2, <1>8, <1>10, Replaced
<1>12. StackSound(ns)
  <2>1. r.todo = <<>> /\ IsInjective(s.todo)
    BY <1>3, <1>4, <1>8 DEF ScopeSound
  <2>2. s.exit = "run" /\ s.todo = <<>> /\ s.id = Last(ss).id /\ s.form = Last(ss).form
    BY <1>3, <1>8, <2>1
  <2>3. StackSound(Append(Front(ss), s))
    BY <1>1, <1>8, <2>1, <2>2, SoundReplace
  <2> QED BY <1>9, <2>3
<1>13. stack' = [stack EXCEPT ![t] = ns] /\ UNCHANGED <<live, va, made, lost>>
  BY <1>1, <1>3, <1>5, <1>6, <1>7, <1>9 DEF DeclareStep, HeapInv
<1>14. AllKnown(ns)'
  <2>1. ASSUME NEW i \in 1 .. n PROVE Known(ns[i])'
    <3>1. CASE i = n
      <4>1. \A v \in Pending(s) : v \in DOMAIN owner' /\ owner'[v] = s.id /\ closings'[v] = 0
        BY <1>4, <1>5, <1>6, <1>8 DEF Known
      <4> QED BY <1>4, <1>8, <1>11, <1>13, <3>1, <4>1 DEF Known, Pending
    <3>2. CASE i # n
      <4>1. ns[i] = ss[i] /\ Known(ss[i])
        BY <1>1, <1>2, <1>11, <3>2 DEF AllKnown
      <4>2. \A v \in Pending(ss[i]) : v \in DOMAIN owner' /\ owner'[v] = ss[i].id /\ closings'[v] = 0
        BY <1>5, <4>1 DEF Known
      <4> QED BY <1>13, <4>1, <4>2 DEF Known, Pending
    <3> QED BY <3>1, <3>2
  <2> QED BY <1>11, <2>1 DEF AllKnown
<1>15. Grown(t)
  BY <1>5, <1>13 DEF Grown, HeapInv, HeapTypes
<1>16. SettledBy(t, ns)
  <2>1. \A v : IsPending(v, ss) => IsPending(v, ns)
    BY <1>2, <1>3, <1>8, <1>11 DEF IsPending
  <2>2. IsPending(w, ns)
    BY <1>2, <1>8, <1>11 DEF IsPending
  <2>3. ASSUME NEW v \in 1 .. L
        PROVE  \/ closings'[v] = 1
               \/ /\ closings'[v] = 0
                  /\ \/ owner'[v] \in lost'
                     \/ IsPending(v, ns)
                     \/ \E u \in Thread : u # t /\ IsPending(v, stack[u])
    <3>1. \/ closings[v] = 1
          \/ closings[v] = 0 /\ (owner[v] \in lost \/ \E u \in Thread : IsPending(v, stack[u]))
      BY <1>5 DEF HeapInv, Settled
    <3> QED BY <1>1, <1>5, <1>13, <2>1, <3>1
  <2> QED BY <1>5, <1>6, <2>2, <2>3 DEF SettledBy
<1>17. HeapTypes'
  BY <1>5, <1>13 DEF HeapInv, HeapTypes
<1>18. FramedBy(t, ns)
  <2>1. Ids(ns) \subseteq ToSet(live') /\ ToSet(live) \ Ids(ss) \subseteq ToSet(live')
    BY <1>1, <1>11, <1>13 DEF HeapInv, LiveEnvKept
  <2>2. ASSUME NoneCollected'
        PROVE  NoneCollected /\ va' = [va EXCEPT ![t] = Varargs(Bottom(t), ns)]
    <3>1. NoneCollected
      BY <2>2 DEF DeclareStep
    <3>2. va[t] = Varargs(Bottom(t), ss)
      BY <1>1, <3>1 DEF HeapInv, VarargsKept, OpenVarargs, NoneCollected
    <3>3. Varargs(Bottom(t), ns) = va[t]
      BY <1>3, <1>8, <1>10, <3>2, ReplacedVarargs
    <3> QED BY <1>13, <3>1, <3>3 DEF HeapInv, HeapTypes
  <2> QED BY <1>1, <2>1, <2>2 DEF FramedBy
<1>19. \A x \in Ids(ns) : x \in Ids(stack[t])
  BY <1>1, <1>11
<1>20. Moves(t, ns)
  BY <1>12, <1>13, <1>14, <1>15, <1>16, <1>17, <1>18, <1>19, Zenon DEF Moves
<1> QED BY <1>1, <1>3, <1>5, <1>6, <1>7, <1>9, <1>20

(* A handler is called: the variable goes from the copy of the list. *)
Called(s) == [s EXCEPT !.todo = Front(@)]

LEMMA CalledIs ==
  ASSUME NEW s \in Scope, s.todo # <<>>, IsInjective(s.todo), s.tbc = <<>>
  PROVE  /\ Called(s) \in Scope
         /\ Called(s).id = s.id /\ Called(s).form = s.form
         /\ Called(s).exit = s.exit /\ Called(s).tbc = <<>>
         /\ Called(s).va = s.va
         /\ IsInjective(Called(s).todo)
         /\ Pending(Called(s)) = Pending(s) \ {Last(s.todo)}
         /\ Last(s.todo) \in Pending(s)
<1>1. /\ Called(s).id = s.id /\ Called(s).form = s.form
      /\ Called(s).exit = s.exit /\ Called(s).tbc = <<>>
      /\ Called(s).va = s.va
      /\ Called(s).todo = Front(s.todo)
  BY DEF Called, Scope
<1>2. s.todo \in Seq(Nat)
  BY DEF Scope
<1>3. /\ Front(s.todo) \in Seq(Nat) /\ IsInjective(Front(s.todo))
      /\ ToSet(Front(s.todo)) = ToSet(s.todo) \ {Last(s.todo)}
      /\ Last(s.todo) \in ToSet(s.todo)
  BY <1>2, FrontSet
<1>4. Called(s) \in Scope
  BY <1>3 DEF Called, Scope
<1>5. /\ Pending(Called(s)) = ToSet(Front(s.todo))
      /\ Pending(s) = ToSet(s.todo)
  <2>1. ToSet(Called(s).tbc) = {} /\ ToSet(s.tbc) = {}
    BY <1>1, ToSetNone
  <2>2. ToSet(Called(s).todo) = ToSet(Front(s.todo))
    BY <1>1
  <2> QED BY <2>1, <2>2 DEF Pending
<1> QED BY <1>1, <1>3, <1>4, <1>5

CallStep(t, h) ==
  /\ stack[t] # <<>> /\ Last(stack[t]).todo # <<>>
  /\ stack' = [stack EXCEPT ![t] = Append(Append(Front(@), Called(Last(@))), h)]
  /\ closings' = [closings EXCEPT ![Last(Last(stack[t]).todo)] = @ + 1]
  /\ h.id = made + 1 /\ h.exit = "run" /\ h.form = "close" /\ ~ h.va
  /\ h.tbc = <<>> /\ h.todo = <<>>
  /\ made' = made + 1 /\ live' = Append(live, made + 1)
  /\ UNCHANGED <<va, owner, lost>>
  /\ NoneCollected' => NoneCollected

LEMMA CallMoves ==
  ASSUME HeapInv, NEW t \in Thread, NEW h \in Scope, CallStep(t, h)
  PROVE  Moves(t, Append(Append(Front(stack[t]), Called(Last(stack[t]))), h))
<1>1. PICK ss \in Seq(Scope) : ss = stack[t] /\ StackSound(ss) /\ AllKnown(ss) /\ ss # <<>>
  BY DEF HeapInv, CallStep
<1>2. PICK n \in Nat : n = Len(ss) /\ n > 0 /\ n \in 1 .. n
  BY <1>1
<1>3. PICK r \in Scope : r = ss[n] /\ r = Last(ss) /\ r.todo # <<>>
  BY <1>1, <1>2 DEF Last, CallStep
<1>4. Known(r) /\ ScopeSound(ss, n)
  BY <1>1, <1>2, <1>3 DEF AllKnown, StackSound
<1>5. r.exit # "run" /\ r.tbc = <<>> /\ IsInjective(r.todo)
  BY <1>3, <1>4 DEF ScopeSound
<1>6. PICK s : s = Called(r)
  OBVIOUS
<1>7. PICK v : v = Last(r.todo)
  OBVIOUS
<1>8. /\ s \in Scope /\ s.id = r.id /\ s.form = r.form /\ s.exit = r.exit /\ s.tbc = <<>>
      /\ s.va = r.va /\ IsInjective(s.todo) /\ Pending(s) = Pending(r) \ {v} /\ v \in Pending(r)
  BY <1>3, <1>5, <1>6, <1>7, CalledIs
<1>9. /\ made \in Nat /\ made' = made + 1 /\ h.id = made + 1
      /\ live' = Append(live, made + 1) /\ UNCHANGED <<va, owner, lost>>
      /\ closings \in [1 .. Len(owner) -> Nat] /\ live \in Seq(1 .. made)
      /\ owner \in Seq(1 .. made) /\ lost \subseteq 1 .. made
      /\ va \in [Thread -> Seq(0 .. made)] /\ DOMAIN owner = 1 .. Len(owner)
  BY DEF CallStep, HeapInv, HeapTypes
<1>10. v \in DOMAIN owner /\ owner[v] = r.id /\ closings[v] = 0
  BY <1>4, <1>8 DEF Known
<1>11. /\ closings' \in [1 .. Len(owner) -> Nat] /\ closings'[v] = 1
       /\ \A w \in DOMAIN owner : w # v => closings'[w] = closings[w]
  BY <1>1, <1>3, <1>7, <1>9, <1>10 DEF CallStep
<1>12. PICK ms : ms = Append(Front(ss), s)
  OBVIOUS
<1>13. Replacing(ss, s, ms)
  BY <1>1, <1>3, <1>8, <1>12 DEF Replacing
<1>14. /\ ms \in Seq(Scope) /\ Len(ms) = n
       /\ \A i \in 1 .. n : i # n => ms[i] = ss[i]
       /\ ms[n] = s
       /\ Ids(ms) = Ids(ss)
  BY <1>2, <1>8, <1>13, Replaced
<1>15. StackSound(ms)
  <2>1. s.exit # "run" /\ s.id = Last(ss).id /\ s.form = Last(ss).form /\ IsInjective(s.tbc)
    BY <1>3, <1>5, <1>8, InjectiveNone
  <2>2. s.exit = "force" => Gateless(ss)
    BY <1>2, <1>3, <1>4, <1>8 DEF ScopeSound, Gateless
  <2>3. StackSound(Append(Front(ss), s))
    BY <1>1, <1>8, <2>1, <2>2, SoundReplace
  <2> QED BY <1>12, <2>3
<1>16. PICK ns : ns = Append(ms, h)
  OBVIOUS
<1>17. /\ ns \in Seq(Scope) /\ Len(ns) = n + 1
       /\ \A i \in 1 .. n : ns[i] = ms[i]
       /\ ns[n + 1] = h
  BY <1>14, <1>16, Appended
<1>18. Ids(ns) = Ids(ss) \cup {h.id}
  BY <1>14, <1>16, AppendIds
<1>19. \A x \in Ids(ss) : x \in 1 .. made
  BY <1>1, IdsOf DEF AllKnown, Known
<1>20. StackSound(ns)
  <2>1. h.id \notin Ids(ms) /\ ms # <<>>
    BY <1>2, <1>9, <1>14, <1>19
  <2>2. h.exit = "run" /\ h.tbc = <<>> /\ h.todo = <<>> /\ h.form = "close"
    BY DEF CallStep
  <2> QED BY <1>15, <1>16, <2>1, <2>2, SoundPush
<1>21. stack' = [stack EXCEPT ![t] = ns]
  BY <1>1, <1>3, <1>6, <1>12, <1>16 DEF CallStep, HeapInv
<1>22. AllKnown(ns)'
  <2>1. ASSUME NEW i \in 1 .. n + 1 PROVE Known(ns[i])'
    <3>1. CASE i = n + 1
      <4>1. h.form # "stdin" /\ Pending(h) = {}
        BY ToSetNone DEF CallStep, Pending
      <4> QED BY <1>9, <1>17, <3>1, <4>1 DEF Known, Pending
    <3>2. CASE i = n
      <4>1. ns[i] = s
        BY <1>2, <1>14, <1>17, <3>2
      <4>2. \A w \in Pending(s) : w \in DOMAIN owner' /\ owner'[w] = s.id /\ closings'[w] = 0
        BY <1>4, <1>8, <1>9, <1>11 DEF Known
      <4>3. s.id \in 1 .. made' /\ (s.form = "stdin" => s.id \in lost')
        BY <1>4, <1>8, <1>9 DEF Known
      <4> QED BY <4>1, <4>2, <4>3 DEF Known, Pending
    <3>3. CASE i \in 1 .. n /\ i # n
      <4>1. ns[i] = ss[i] /\ Known(ss[i])
        BY <1>1, <1>2, <1>14, <1>17, <3>3 DEF AllKnown
      <4>2. ss[i].id # r.id
        BY <1>1, <1>2, <1>3, <3>3 DEF StackSound, IdsApart
      <4>3. \A w \in Pending(ss[i]) : w \in DOMAIN owner' /\ owner'[w] = ss[i].id /\ closings'[w] = 0
        BY <1>9, <1>10, <1>11, <4>1, <4>2 DEF Known
      <4>4. ss[i].id \in 1 .. made' /\ (ss[i].form = "stdin" => ss[i].id \in lost')
        BY <1>9, <4>1 DEF Known
      <4> QED BY <4>1, <4>3, <4>4 DEF Known, Pending
    <3> QED BY <3>1, <3>2, <3>3
  <2> QED BY <1>17, <2>1 DEF AllKnown
<1>23. Grown(t)
  <2>1. r.id \in Ids(ss)
    BY <1>2, <1>3, IdsOf
  <2> QED BY <1>1, <1>9, <1>10, <1>11, <2>1 DEF Grown
<1>24. SettledBy(t, ns)
  <2>1. ASSUME NEW w, w # v, IsPending(w, ss) PROVE IsPending(w, ns)
    <3>1. PICK i \in 1 .. n : w \in Pending(ss[i])
      BY <1>2, <2>1 DEF IsPending
    <3>2. w \in Pending(ns[i])
      BY <1>3, <1>8, <1>14, <1>17, <2>1, <3>1
    <3> QED BY <1>17, <3>1, <3>2 DEF IsPending
  <2>2. ASSUME NEW w \in DOMAIN owner
        PROVE  \/ closings'[w] = 1
               \/ /\ closings'[w] = 0
                  /\ \/ owner'[w] \in lost'
                     \/ IsPending(w, ns)
                     \/ \E u \in Thread : u # t /\ IsPending(w, stack[u])
    <3>1. \/ closings[w] = 1
          \/ closings[w] = 0 /\ (owner[w] \in lost \/ \E u \in Thread : IsPending(w, stack[u]))
      BY DEF HeapInv, Settled
    <3> QED BY <1>1, <1>9, <1>11, <2>1, <3>1
  <2> QED BY <1>9, <2>2 DEF SettledBy
<1>25. live' \in Seq(1 .. made') /\ ToSet(live') = ToSet(live) \cup {h.id}
  <2>1. PICK S, x : S = 1 .. made' /\ x = h.id
    OBVIOUS
  <2>2. live \in Seq(S) /\ x \in S /\ live' = Append(live, x)
    BY <1>9, <2>1
  <2>3. ToSet(Append(live, x)) = ToSet(live) \cup {x}
    BY <2>2, AppendToSet
  <2> QED BY <2>1, <2>2, <2>3
<1>26. HeapTypes'
  <2>1. \A u \in Thread : va[u] \in Seq(0 .. made')
    BY <1>9
  <2>2. va' \in [Thread -> Seq(0 .. made')] /\ owner' \in Seq(1 .. made') /\ lost' \subseteq 1 .. made'
    BY <1>9, <2>1
  <2> QED BY <1>9, <1>11, <1>25, <2>2 DEF HeapTypes
<1>27. FramedBy(t, ns)
  <2>1. Ids(ns) \subseteq ToSet(live') /\ ToSet(live) \ Ids(ss) \subseteq ToSet(live')
    BY <1>1, <1>18, <1>25 DEF HeapInv, LiveEnvKept
  <2>2. ASSUME NoneCollected'
        PROVE  NoneCollected /\ va' = [va EXCEPT ![t] = Varargs(Bottom(t), ns)]
    <3>1. NoneCollected
      BY <2>2 DEF CallStep
    <3>2. va[t] = Varargs(Bottom(t), ss)
      BY <1>1, <3>1 DEF HeapInv, VarargsKept, OpenVarargs, NoneCollected
    <3>3. Varargs(Bottom(t), ms) = va[t]
      BY <1>3, <1>8, <1>13, <3>2, ReplacedVarargs
    <3>4. Varargs(Bottom(t), ns) = va[t]
      BY <1>14, <1>16, <3>3, VarargsAppend DEF With, CallStep
    <3> QED BY <1>9, <3>1, <3>4
  <2> QED BY <1>1, <2>1, <2>2 DEF FramedBy
<1>28. \A x \in Ids(ns) : x \in Ids(stack[t]) \/ x > made
  BY <1>1, <1>9, <1>18
<1>29. Moves(t, ns)
  BY <1>20, <1>21, <1>22, <1>23, <1>24, <1>26, <1>27, <1>28, Zenon DEF Moves
<1> QED BY <1>1, <1>3, <1>6, <1>12, <1>16, <1>29

(* The innermost scopes of a thread are left. *)
DropStep(t, g, ns) ==
  /\ g \in 1 .. Len(stack[t])
  /\ \/ ns = SubSeq(stack[t], 1, g - 1)
     \/ \E below, why :
          /\ below = SubSeq(stack[t], 1, g - 1)
          /\ CanClose(below, why) /\ CanForget(below)
          /\ ns = Append(Front(below), Closing(Last(below), why))
  /\ stack' = [stack EXCEPT ![t] = ns]
  /\ Unwind(t, SubSeq(stack[t], g, Len(stack[t])))
  /\ \A i \in g .. Len(stack[t]) : Pending(stack[t][i]) = {} \/ stack[t][i].id \in lost'
  /\ lost \subseteq lost' /\ lost' \subseteq 1 .. made
  /\ UNCHANGED <<made, owner, closings>>
  /\ NoneCollected' => NoneCollected

(* The scopes of a stack below its g-th, and the others. *)
IdsFrom(ss, g, n) == {ss[i].id : i \in g .. n}

LEMMA Parts ==
  ASSUME NEW ss, StackSound(ss), NEW n \in Nat, n = Len(ss), NEW g \in 1 .. n
  PROVE  /\ StackSound(SubSeq(ss, 1, g - 1))
         /\ Len(SubSeq(ss, 1, g - 1)) = g - 1
         /\ \A i \in 1 .. g - 1 : SubSeq(ss, 1, g - 1)[i] = ss[i]
         /\ SubSeq(ss, g, n) \in Seq(Scope)
         /\ Ids(SubSeq(ss, g, n)) = IdsFrom(ss, g, n)
         /\ Ids(SubSeq(ss, g, n)) \cap Ids(SubSeq(ss, 1, g - 1)) = {}
         /\ Ids(SubSeq(ss, g, n)) \subseteq Ids(ss)
         /\ Ids(SubSeq(ss, 1, g - 1)) \subseteq Ids(ss)
<1>1. ss \in Seq(Scope) /\ IdsApart(ss) /\ \A i \in 1 .. n : ss[i] \in Scope
  BY DEF StackSound
<1>2. PICK h \in 0 .. n : h = g - 1
  OBVIOUS
<1>3. PICK below, gone : below = SubSeq(ss, 1, h) /\ gone = SubSeq(ss, g, n)
  OBVIOUS
<1>4. StackSound(below)
  BY <1>2, <1>3, SoundPrefix
<1>5. below \in Seq(Scope) /\ Len(below) = h /\ \A i \in 1 .. h : below[i] = ss[i]
  BY <1>1, <1>2, <1>3
<1>6. /\ gone \in Seq(Scope) /\ Len(gone) = n - g + 1
      /\ \A i \in 1 .. n - g + 1 : gone[i] = ss[g + i - 1]
  <2>1. g \in Int /\ n \in Int /\ \A i \in g .. n : ss[i] \in Scope
    BY <1>1
  <2>2. /\ SubSeq(ss, g, n) \in Seq(Scope)
        /\ Len(SubSeq(ss, g, n)) = IF g <= n THEN n - g + 1 ELSE 0
        /\ \A i \in 1 .. n - g + 1 : SubSeq(ss, g, n)[i] = ss[g + i - 1]
    BY <2>1, SubSeqProperties
  <2> QED BY <1>3, <2>2
<1>7. Ids(gone) = {ss[i].id : i \in g .. n}
  <2>1. Ids(gone) = {gone[i].id : i \in 1 .. n - g + 1}
    BY <1>6, IdsOf
  <2>2. ASSUME NEW i \in g .. n PROVE \E j \in 1 .. n - g + 1 : gone[j] = ss[i]
    <3>1. i - g + 1 \in 1 .. n - g + 1 /\ g + (i - g + 1) - 1 = i
      OBVIOUS
    <3> QED BY <1>6, <3>1
  <2>3. ASSUME NEW j \in 1 .. n - g + 1 PROVE \E i \in g .. n : gone[j] = ss[i]
    <3>1. g + j - 1 \in g .. n
      OBVIOUS
    <3> QED BY <1>6, <3>1
  <2>4. Ids(gone) \subseteq {ss[i].id : i \in g .. n}
    BY <2>1, <2>3
  <2>5. {ss[i].id : i \in g .. n} \subseteq Ids(gone)
    BY <2>1, <2>2
  <2> QED BY <2>4, <2>5
<1>8. Ids(below) = {ss[i].id : i \in 1 .. h}
  BY <1>5, IdsOf
<1>9. Ids(ss) = {ss[i].id : i \in 1 .. n}
  BY <1>1, IdsOf
<1>10. Ids(gone) \cap Ids(below) = {}
  <2>1. \A i \in g .. n, j \in 1 .. h : ss[i].id # ss[j].id
    BY <1>1, <1>2 DEF IdsApart
  <2> QED BY <1>7, <1>8, <2>1
<1>11. Ids(gone) \subseteq Ids(ss) /\ Ids(below) \subseteq Ids(ss)
  BY <1>2, <1>7, <1>8, <1>9
<1> QED BY <1>2, <1>3, <1>4, <1>5, <1>6, <1>7, <1>10, <1>11 DEF IdsFrom

LEMMA DropMoves ==
  ASSUME HeapInv, NEW t \in Thread, NEW g, NEW ns, DropStep(t, g, ns)
  PROVE  Moves(t, ns)
<1>1. PICK ss \in Seq(Scope) : ss = stack[t] /\ StackSound(ss) /\ AllKnown(ss)
  BY DEF HeapInv
<1>2. PICK n \in Nat : n = Len(ss) /\ g \in 1 .. n
  BY <1>1 DEF DropStep
<1>3. PICK below, gone : below = SubSeq(ss, 1, g - 1) /\ gone = SubSeq(ss, g, n)
  OBVIOUS
<1>4. /\ StackSound(below) /\ Len(below) = g - 1
      /\ \A i \in 1 .. g - 1 : below[i] = ss[i]
      /\ gone \in Seq(Scope) /\ Ids(gone) \cap Ids(below) = {}
      /\ Ids(gone) \subseteq Ids(ss) /\ Ids(below) \subseteq Ids(ss)
  BY <1>1, <1>2, <1>3, Parts, Zenon
<1>5. Still /\ lost' \subseteq 1 .. made' /\ UNCHANGED <<made, owner, closings>>
  BY DEF DropStep, Still, HeapInv, HeapTypes
<1>6. AllKnown(below)
  BY <1>1, <1>2, <1>4 DEF AllKnown
<1>7. \A v \in DOMAIN owner : IsPending(v, ss) => IsPending(v, below) \/ owner[v] \in lost'
  <2>1. ASSUME NEW v \in DOMAIN owner, IsPending(v, ss), owner[v] \notin lost'
        PROVE  IsPending(v, below)
    <3>1. PICK i \in 1 .. n : v \in Pending(ss[i])
      BY <1>2, <2>1 DEF IsPending
    <3>2. owner[v] = ss[i].id
      BY <1>1, <1>2, <3>1 DEF AllKnown, Known
    <3>3. i \notin g .. n
      BY <1>1, <1>2, <2>1, <3>1, <3>2 DEF DropStep
    <3>4. i \in 1 .. g - 1
      BY <1>2, <3>3
    <3> QED BY <1>4, <3>1, <3>4 DEF IsPending
  <2> QED BY <2>1
<1>8. /\ StackSound(ns) /\ Ids(ns) = Ids(below) /\ AllKnown(ns)'
      /\ \A v \in DOMAIN owner : IsPending(v, below) => IsPending(v, ns) \/ owner[v] \in lost'
      /\ \A b : Varargs(b, ns) = Varargs(b, below)
  <2>1. CASE ns = below
    <3>1. AllKnown(below)'
      <4>1. ASSUME NEW i \in 1 .. Len(below) PROVE Known(below[i])'
        BY <1>5, <1>6, KnownStill DEF AllKnown, Still
      <4> QED BY <4>1 DEF AllKnown
    <3> QED BY <1>4, <2>1, <3>1
  <2>2. CASE \E why : /\ CanClose(below, why) /\ CanForget(below)
                      /\ ns = Append(Front(below), Closing(Last(below), why))
    <3>1. PICK why : /\ CanClose(below, why) /\ CanForget(below)
                     /\ ns = Append(Front(below), Closing(Last(below), why))
      BY <2>2
    <3>2. ClosedTo(below, why, ns)
      BY <3>1, ClosedTop
    <3>3. /\ AllKnown(ns)'
          /\ \A v \in DOMAIN owner : IsPending(v, below) => IsPending(v, ns) \/ owner[v] \in lost'
      BY <1>5, <1>6, <3>1, <3>2, ClosedPending
    <3>4. \A b : Varargs(b, ns) = Varargs(b, below)
      BY <3>1, <3>2, ClosedVarargs
    <3> QED BY <3>2, <3>3, <3>4 DEF ClosedTo
  <2>3. \/ ns = below
        \/ \E why : /\ CanClose(below, why) /\ CanForget(below)
                    /\ ns = Append(Front(below), Closing(Last(below), why))
    BY <1>1, <1>3 DEF DropStep
  <2> QED BY <2>1, <2>2, <2>3
<1>9. Grown(t) /\ SettledBy(t, ns)
  <2>1. Resting(t, ns)
    BY <1>1, <1>5, <1>7, <1>8 DEF Resting, Still
  <2> QED BY <2>1, RestingSettles DEF HeapInv
<1>10. PICK w : w = [live |-> live, va |-> va[t]]
  OBVIOUS
<1>11. PICK end : /\ end = Finally(gone, w)
                  /\ live' = end.live /\ va' = [va EXCEPT ![t] = end.va]
  BY <1>1, <1>2, <1>3, <1>10 DEF DropStep, Unwind, VarargsOf
<1>12. live \in Seq(1 .. made) /\ va \in [Thread -> Seq(0 .. made)] /\ made \in Nat
  BY DEF HeapInv, HeapTypes
<1>13. /\ live' \in Seq(1 .. made) /\ end.va \in Seq(0 .. made)
       /\ ToSet(live) \ Ids(gone) \subseteq ToSet(live')
  <2>1. PICK S, T : S = 1 .. made /\ T = 0 .. made
    OBVIOUS
  <2>2. w.live \in Seq(S) /\ w.va \in Seq(T) /\ w.live = live
    BY <1>10, <1>12, <2>1
  <2>3. /\ Finally(gone, w).live \in Seq(S) /\ Finally(gone, w).va \in Seq(T)
        /\ ToSet(w.live) \ Ids(gone) \subseteq ToSet(Finally(gone, w).live)
    BY <1>4, <2>2, FinallyLive
  <2> QED BY <1>11, <2>1, <2>2, <2>3
<1>14. HeapTypes'
  BY <1>5, <1>11, <1>12, <1>13 DEF HeapTypes, HeapInv
<1>15. FramedBy(t, ns)
  <2>1. Ids(ns) \subseteq ToSet(live') /\ ToSet(live) \ Ids(ss) \subseteq ToSet(live')
    <3>1. Ids(ss) \subseteq ToSet(live)
      BY <1>1 DEF HeapInv, LiveEnvKept
    <3> QED BY <1>4, <1>8, <1>13, <3>1
  <2>2. ASSUME NoneCollected'
        PROVE  NoneCollected /\ va' = [va EXCEPT ![t] = Varargs(Bottom(t), ns)]
    <3>1. NoneCollected
      BY <2>2 DEF DropStep
    <3>2. va[t] = Varargs(Bottom(t), ss)
      BY <1>1, <3>1 DEF HeapInv, VarargsKept, OpenVarargs, NoneCollected
    <3>3. PICK b \in Seq(Nat) : b = Bottom(t)
      <4>1. Bottom(t) \in Seq(Nat)
        BY DEF Bottom
      <4> QED BY <4>1
    <3>4. w.live \in Seq(Nat) /\ w.va = Varargs(b, ss)
      <4>1. live \in Seq(Nat)
        BY <1>12
      <4> QED BY <1>10, <3>2, <3>3, <4>1
    <3>5. end.va = Varargs(b, below)
      <4>1. g \in 1 .. Len(ss) + 1 /\ n = Len(ss)
        BY <1>2
      <4>2. Finally(SubSeq(ss, g, Len(ss)), w).va = Varargs(b, SubSeq(ss, 1, g - 1))
        BY <3>4, <4>1, FinallyVarargs
      <4> QED BY <1>3, <1>11, <4>1, <4>2
    <3> QED BY <1>8, <1>11, <3>1, <3>3, <3>5
  <2> QED BY <1>1, <2>1, <2>2 DEF FramedBy
<1>16. \A x \in Ids(ns) : x \in Ids(stack[t])
  BY <1>1, <1>4, <1>8
<1>17. stack' = [stack EXCEPT ![t] = ns]
  BY DEF DropStep
<1> QED BY <1>8, <1>9, <1>14, <1>15, <1>16, <1>17, Zenon DEF Moves

(* A coroutine with one scope is collected: no promise is left of varargs. *)
TempStep(t, to) ==
  /\ to # t
  /\ stack[t] # <<>> /\ Len(stack[t]) = 1
  /\ stack' = [stack EXCEPT ![t] = <<>>]
  /\ \/ va' = va
     \/ va' = [va EXCEPT ![t] = <<>>, ![to] = PopVarargs(@)]
  /\ live' = live \/ live' = PopLive(live, Last(stack[t]).id)
  /\ lost' = lost \cup {Last(stack[t]).id}
  /\ UNCHANGED <<made, owner, closings>>
  /\ ~ NoneCollected'

LEMMA TempMoves ==
  ASSUME HeapInv, NEW t \in Thread, NEW to \in Thread, TempStep(t, to)
  PROVE  Moves(t, <<>>)
<1>1. PICK ss \in Seq(Scope) : ss = stack[t] /\ AllKnown(ss) /\ Len(ss) = 1
  BY DEF HeapInv, TempStep
<1>2. PICK s \in Scope : s = ss[1] /\ s = Last(ss)
  BY <1>1 DEF Last
<1>3. Known(s) /\ Ids(ss) = {s.id}
  <2>1. Ids(ss) = {ss[i].id : i \in 1 .. 1}
    BY <1>1, IdsOf
  <2>2. 1 \in 1 .. 1
    OBVIOUS
  <2>3. \A i \in 1 .. 1 : i = 1
    OBVIOUS
  <2>4. Known(ss[1])
    BY <1>1, <2>2 DEF AllKnown
  <2> QED BY <1>2, <2>1, <2>2, <2>3, <2>4
<1>4. /\ lost' = lost \cup {s.id} /\ UNCHANGED <<made, owner, closings>>
      /\ live' = live \/ live' = PopLive(live, s.id)
      /\ stack' = [stack EXCEPT ![t] = <<>>]
  BY <1>1, <1>2 DEF TempStep
<1>5. StackSound(<<>>) /\ AllKnown(<<>>)' /\ Ids(<<>>) = {}
  <2>1. Ids(<<>>) = {}
    BY DEF Ids
  <2> QED BY <2>1, SoundNone DEF AllKnown
<1>6. /\ made \in Nat /\ live \in Seq(1 .. made) /\ va \in [Thread -> Seq(0 .. made)]
      /\ lost \subseteq 1 .. made
  BY DEF HeapInv, HeapTypes
<1>7. Grown(t) /\ SettledBy(t, <<>>)
  <2>1. ASSUME NEW v \in DOMAIN owner, IsPending(v, ss) PROVE owner[v] \in lost'
    <3>1. PICK i \in 1 .. 1 : v \in Pending(ss[i])
      BY <1>1, <2>1 DEF IsPending
    <3>2. v \in Pending(s)
      <4>1. i = 1
        OBVIOUS
      <4> QED BY <1>2, <3>1, <4>1
    <3> QED BY <1>3, <1>4, <3>2 DEF Known
  <2>2. Resting(t, <<>>)
    BY <1>1, <1>4, <1>6, <2>1 DEF Resting
  <2> QED BY <2>2, RestingSettles DEF HeapInv
<1>8. live' \in Seq(1 .. made) /\ ToSet(live) \ {s.id} \subseteq ToSet(live')
  BY <1>4, <1>6, Fronts DEF PopLive
<1>9. va' \in [Thread -> Seq(0 .. made)]
  <2>1. CASE va' = va
    BY <1>6, <2>1
  <2>2. CASE va' = [va EXCEPT ![t] = <<>>, ![to] = PopVarargs(@)]
    <3>1. \A x \in Seq(0 .. made) : PopVarargs(x) \in Seq(0 .. made)
      BY Fronts DEF PopVarargs
    <3>2. PICK v1 : v1 = [va EXCEPT ![t] = <<>>]
      OBVIOUS
    <3>6. to # t
      BY DEF TempStep
    <3>3. v1 \in [Thread -> Seq(0 .. made)]
      <4>1. <<>> \in Seq(0 .. made)
        OBVIOUS
      <4> QED BY <1>6, <3>2, <4>1
    <3>4. va' = [v1 EXCEPT ![to] = PopVarargs(va[to])]
      BY <2>2, <3>2, <3>6, Zenon
    <3>5. PopVarargs(va[to]) \in Seq(0 .. made)
      BY <1>6, <3>1
    <3> QED BY <3>3, <3>4, <3>5
  <2> QED BY <2>1, <2>2 DEF TempStep
<1>10. HeapTypes'
  BY <1>3, <1>4, <1>6, <1>8, <1>9 DEF HeapTypes, HeapInv, Known
<1>11. FramedBy(t, <<>>)
  BY <1>1, <1>3, <1>5, <1>8 DEF FramedBy, TempStep
<1> QED BY <1>4, <1>5, <1>7, <1>10, <1>11 DEF Moves

LEMMA HeapStill ==
  ASSUME HeapInv, UNCHANGED <<stack, live, va, made, owner, closings, lost>>,
         NoneCollected' => NoneCollected
  PROVE  HeapInv'
<1>1. HeapTypes' /\ stack' \in [Thread -> Seq(Scope)] /\ LiveEnvKept'
  BY DEF HeapInv, HeapTypes, LiveEnvKept, Ids
<1>2. (\A t \in Thread : StackSound(stack[t]) /\ AllKnown(stack[t]))'
  BY DEF HeapInv, StackSound, ScopeSound, IdsApart, AllKnown, Known, Pending
<1>3. Apart' /\ Settled'
  <2>1. Apart'
    <3>1. \A t \in Thread : Ids(stack[t])' = Ids(stack[t])
      BY DEF Ids
    <3> QED BY <3>1 DEF HeapInv, Apart
  <2>2. \A v : \A t \in Thread : IsPending(v, stack[t]) <=> IsPending(v, stack[t])'
    BY DEF IsPending, Pending
  <2>3. Settled'
    BY <2>2 DEF HeapInv, Settled
  <2> QED BY <2>1, <2>3
<1>4. VarargsKept'
  BY DEF HeapInv, VarargsKept, NoneCollected, OpenVarargs, Varargs, Bottom
<1> QED BY <1>1, <1>2, <1>3, <1>4 DEF HeapInv

-----------------------------------------------------------------------------
(* The chain *)

Clean(ss) == \A i \in 1 .. Len(ss) : ss[i].form \notin Gate /\ ss[i].exit = "run"

ChainTypes ==
  /\ chain \in Seq(Thread) /\ chain # <<>> /\ chain[1] = Main /\ IsInjective(chain)
  /\ status \in [Coroutine -> {"suspended", "running", "dead", "collected"}]
  /\ closed \in [Coroutine -> BOOLEAN]

Placed(t) ==
  IF Waiting(t) THEN status[t] # "running" /\ Clean(stack[t])
  ELSE status[t] # "collected" /\ (status[t] = "running" \/ closed[t])

ChainInv == ChainTypes /\ \A t \in Coroutine : Placed(t)

LEMMA ChainFacts ==
  ASSUME ChainInv
  PROVE  /\ Current \in Thread /\ Current \in ToSet(chain)
         /\ Main \in ToSet(chain)
         /\ ToSet(chain) \subseteq Thread
<1>1. chain \in Seq(Thread) /\ chain # <<>> /\ chain[1] = Main
  BY DEF ChainInv, ChainTypes
<1>2. /\ Last(chain) = chain[Len(chain)] /\ Last(chain) \in Thread /\ Len(chain) > 0
      /\ DOMAIN chain = 1 .. Len(chain) /\ Len(chain) \in Nat
  BY <1>1 DEF Last
<1>3. \A i \in 1 .. Len(chain) : chain[i] \in Thread
  BY <1>1
<1>4. 1 \in 1 .. Len(chain) /\ Len(chain) \in 1 .. Len(chain)
  BY <1>2
<1> QED BY <1>1, <1>2, <1>3, <1>4 DEF Current, ToSet

LEMMA ChainFront ==
  ASSUME ChainInv, Current # Main
  PROVE  /\ Current \in Coroutine
         /\ Front(chain) \in Seq(Thread) /\ Front(chain) # <<>> /\ Front(chain)[1] = Main
         /\ IsInjective(Front(chain)) /\ ToSet(Front(chain)) = ToSet(chain) \ {Current}
         /\ Last(Front(chain)) \in Thread /\ Last(Front(chain)) # Current
<1>1. chain \in Seq(Thread) /\ chain # <<>> /\ chain[1] = Main /\ IsInjective(chain)
  BY DEF ChainInv, ChainTypes
<1>2. Current \in Coroutine
  BY ChainFacts DEF Thread
<1>3. /\ Front(chain) \in Seq(Thread) /\ Len(Front(chain)) = Len(chain) - 1 /\ Len(chain) > 0
      /\ \A i \in 1 .. Len(chain) - 1 : Front(chain)[i] = chain[i]
      /\ Last(chain) = chain[Len(chain)]
  BY <1>1, Fronts
<1>4. Len(chain) # 1
  BY <1>1, <1>3 DEF Current
<1>5. Front(chain) # <<>> /\ Front(chain)[1] = Main
  <2>1. 1 \in 1 .. Len(chain) - 1 /\ Len(Front(chain)) # 0
    BY <1>1, <1>3, <1>4
  <2> QED BY <1>1, <1>3, <2>1
<1>6. IsInjective(Front(chain)) /\ ToSet(Front(chain)) = ToSet(chain) \ {Current}
  BY <1>1, FrontSet DEF Current
<1>7. Last(Front(chain)) \in Thread
  BY <1>3, <1>5 DEF Last
<1>8. Last(Front(chain)) \in ToSet(Front(chain))
  BY <1>3, <1>5, <1>6, FrontSet
<1> QED BY <1>2, <1>3, <1>5, <1>6, <1>7, <1>8

LEMMA ChainAppend ==
  ASSUME ChainInv, NEW t \in Coroutine, Waiting(t)
  PROVE  /\ Append(chain, t) \in Seq(Thread) /\ Append(chain, t) # <<>> /\ Append(chain, t)[1] = Main
         /\ IsInjective(Append(chain, t)) /\ ToSet(Append(chain, t)) = ToSet(chain) \cup {t}
<1>1. /\ chain \in Seq(Thread) /\ chain # <<>> /\ chain[1] = Main /\ IsInjective(chain)
      /\ t \in Thread /\ t \notin ToSet(chain)
  BY DEF ChainInv, ChainTypes, Thread, Waiting
<1>2. Append(chain, t)[1] = Main
  BY <1>1
<1>3. /\ Append(chain, t) \in Seq(Thread) /\ Append(chain, t) # <<>>
      /\ ToSet(Append(chain, t)) = ToSet(chain) \cup {t}
      /\ IsInjective(Append(chain, t))
  BY <1>1, AppendSet
<1> QED BY <1>2, <1>3

(* What is asked of a coroutine after a step. *)
PlacedBy(t) ==
  IF t \notin ToSet(chain') THEN status'[t] # "running" /\ Clean(stack'[t])
  ELSE status'[t] # "collected" /\ (status'[t] = "running" \/ closed'[t])

LEMMA ChainKeeps ==
  ASSUME ChainTypes', \A t \in Coroutine : PlacedBy(t) PROVE ChainInv'
<1>1. \A t \in Coroutine : Placed(t)' <=> PlacedBy(t)
  BY DEF Placed, PlacedBy, Waiting, Clean, ToSet
<1> QED BY <1>1 DEF ChainInv

(* The current thread, or another on the chain, moves its stack. *)
LEMMA ChainStays ==
  ASSUME ChainInv, NEW t \in ToSet(chain), NEW ns, stack' = [stack EXCEPT ![t] = ns],
         stack \in [Thread -> Seq(Scope)], UNCHANGED <<chain, status, closed>>
  PROVE  ChainInv'
<1>1. ChainTypes'
  BY DEF ChainInv, ChainTypes
<1>2. ASSUME NEW u \in Coroutine PROVE PlacedBy(u)
  <2>1. u \in Thread /\ (u # t => stack'[u] = stack[u])
    BY DEF Thread
  <2> QED BY <2>1 DEF PlacedBy, ChainInv, Placed, Waiting
<1> QED BY <1>1, <1>2, ChainKeeps

-----------------------------------------------------------------------------
(* The operations *)

LEMMA OpenIs ==
  ASSUME HeapInv, ChainInv, Open
  PROVE  \E t \in Thread :
           /\ t = Current /\ t \in ToSet(chain)
           /\ stack[t] # <<>> /\ Last(stack[t]).exit = "run" /\ Top(t) = Last(stack[t])
           /\ StackSound(stack[t]) /\ stack[t] \in Seq(Scope)
BY ChainFacts DEF Open, Started, Top, HeapInv, StackSound

LEMMA CleanStack ==
  ASSUME NEW ss, StackSound(ss), Gateless(ss), ss # <<>> => Last(ss).exit = "run"
  PROVE  Clean(ss)
<1>1. PICK n \in Nat : n = Len(ss) /\ ss \in Seq(Scope)
  BY DEF StackSound
<1>2. ASSUME NEW i \in 1 .. n PROVE ss[i].exit = "run"
  <2>1. CASE i = n
    BY <1>1, <2>1 DEF Last
  <2>2. CASE i # n
    <3>1. i + 1 \in 1 .. n /\ ScopeSound(ss, i) /\ i < n
      BY <1>1, <2>2 DEF StackSound
    <3>2. ss[i + 1].form # "close"
      BY <1>1, <3>1 DEF Gateless, Gate
    <3> QED BY <1>1, <3>1, <3>2 DEF ScopeSound
  <2> QED BY <2>1, <2>2
<1> QED BY <1>1, <1>2 DEF Clean, Gateless

(* A push by the host or by the current thread. *)
LEMMA PushKeeps ==
  ASSUME HeapInv, ChainInv, NEW t \in ToSet(chain), NEW s \in Scope, PushStep(t, s),
         UNCHANGED <<chain, status, closed>>
  PROVE  HeapInv' /\ ChainInv'
<1>1. t \in Thread /\ stack \in [Thread -> Seq(Scope)]
  BY ChainFacts DEF HeapInv
<1>2. Moves(t, Append(stack[t], s))
  BY <1>1, PushMoves
<1>3. stack' = [stack EXCEPT ![t] = Append(stack[t], s)]
  BY <1>2 DEF Moves
<1> QED BY <1>1, <1>2, <1>3, MovesKeep, ChainStays

LEMMA RunKeeps ==
  ASSUME HeapInv, ChainInv, RunLine \/ RunChunk PROVE HeapInv' /\ ChainInv'
<1>1. stack[Main] = <<>> /\ Main \in ToSet(chain) /\ made \in Nat /\ lost \subseteq 1 .. made
  BY ChainFacts DEF RunLine, RunChunk, Started, HeapInv, HeapTypes
<1>2. CASE RunLine
  <2>1. PICK s : s = NewScope("stdin", FALSE, Main)
    OBVIOUS
  <2>2. s \in Scope
    BY <1>1, <2>1, NewScopeType DEF Form
  <2>3. /\ s.id = made + 1 /\ s.exit = "run" /\ s.tbc = <<>> /\ s.todo = <<>>
        /\ s.form = "stdin"
    BY <2>1 DEF NewScope
  <2>4. /\ Push(Main, s) /\ lost' = lost \cup {made + 1}
        /\ UNCHANGED <<owner, closings, chain, status, closed>>
    BY <1>2, <2>1 DEF RunLine
  <2>5. PushStep(Main, s)
    BY <1>1, <2>3, <2>4 DEF PushStep, NoneCollected
  <2> QED BY <1>1, <2>2, <2>4, <2>5, PushKeeps
<1>3. CASE RunChunk
  <2>1. PICK s : s = NewScope("sync", TRUE, Main)
    OBVIOUS
  <2>2. s \in Scope
    BY <1>1, <2>1, NewScopeType DEF Form, Gate
  <2>3. /\ s.id = made + 1 /\ s.exit = "run" /\ s.tbc = <<>> /\ s.todo = <<>>
        /\ s.form = "sync"
    BY <2>1 DEF NewScope
  <2>4. /\ Push(Main, s) /\ lost' = lost
        /\ UNCHANGED <<owner, closings, chain, status, closed>>
    BY <1>3, <2>1 DEF RunChunk
  <2>5. PushStep(Main, s)
    BY <1>1, <2>3, <2>4 DEF PushStep, NoneCollected
  <2> QED BY <1>1, <2>2, <2>4, <2>5, PushKeeps
<1> QED BY <1>2, <1>3

LEMMA EnterKeeps ==
  ASSUME HeapInv, ChainInv, NEW form \in {"call", "pcall", "load", "search"},
         NEW hasVa \in BOOLEAN, NEW m \in Module \cup {Main}, Open, Push(Current, NewScope(form, hasVa, m)),
         UNCHANGED <<chain, status, closed, owner, closings, lost>>
  PROVE  HeapInv' /\ ChainInv'
<1>1. PICK t \in Thread :
        /\ t = Current /\ t \in ToSet(chain) /\ Last(stack[t]).exit = "run"
  BY OpenIs
<1>2. made \in Nat /\ lost \subseteq 1 .. made
  BY DEF HeapInv, HeapTypes
<1>3. PICK s : s = NewScope(form, hasVa, m)
  OBVIOUS
<1>4. s \in Scope
  BY <1>2, <1>3, NewScopeType DEF Form, Gate
<1>5. /\ s.id = made + 1 /\ s.exit = "run" /\ s.tbc = <<>> /\ s.todo = <<>>
      /\ s.form = form
  BY <1>3 DEF NewScope
<1>6. PushStep(t, s)
  BY <1>1, <1>2, <1>3, <1>5 DEF PushStep, NoneCollected
<1> QED BY <1>1, <1>4, <1>6, PushKeeps

LEMMA DeclareKeeps ==
  ASSUME HeapInv, ChainInv, Declare PROVE HeapInv' /\ ChainInv'
<1>1. PICK t \in Thread :
        /\ t = Current /\ t \in ToSet(chain) /\ stack[t] # <<>> /\ Last(stack[t]).exit = "run"
        /\ Top(t) = Last(stack[t])
  BY OpenIs DEF Declare, Executing
<1>2. /\ stack' = [stack EXCEPT ![t] = Append(Front(@), Declared(Last(@), Len(owner) + 1))]
      /\ owner' = Append(owner, Last(stack[t]).id)
      /\ closings' = Append(closings, 0)
      /\ UNCHANGED <<live, va, made, lost, chain, status, closed>>
  BY <1>1 DEF Declare, Declared
<1>3. DeclareStep(t)
  BY <1>1, <1>2 DEF DeclareStep, NoneCollected
<1>4. PICK ns : ns = Append(Front(stack[t]), Declared(Last(stack[t]), Len(owner) + 1))
  OBVIOUS
<1>5. Moves(t, ns)
  BY <1>3, <1>4, DeclareMoves
<1>6. HeapInv'
  BY <1>5, MovesKeep
<1>7. stack' = [stack EXCEPT ![t] = ns] /\ stack \in [Thread -> Seq(Scope)]
  BY <1>5 DEF Moves, HeapInv
<1>8. ChainInv'
  BY <1>1, <1>2, <1>7, ChainStays
<1> QED BY <1>6, <1>8

LEMMA LeaveKeeps ==
  ASSUME HeapInv, ChainInv, NEW why \in {"return", "error"}, Exit(why)
  PROVE  HeapInv' /\ ChainInv'
<1>1. PICK t \in Thread :
        /\ t = Current /\ t \in ToSet(chain) /\ stack[t] # <<>> /\ Last(stack[t]).exit = "run"
        /\ Top(t) = Last(stack[t]) /\ StackSound(stack[t])
  BY OpenIs DEF Exit
<1>2. /\ stack' = [stack EXCEPT ![t] = Append(Front(@), Closing(Last(@), why))]
      /\ UNCHANGED <<live, va, made, owner, closings, lost, chain, status, closed>>
  BY <1>1 DEF Exit
<1>3. CloseStep(t, why)
  BY <1>1, <1>2 DEF CloseStep, CanClose, NoneCollected
<1>4. PICK ns : ns = Append(Front(stack[t]), Closing(Last(stack[t]), why))
  OBVIOUS
<1>5. Moves(t, ns)
  BY <1>3, <1>4, CloseMoves
<1>6. HeapInv'
  BY <1>5, MovesKeep
<1>7. stack' = [stack EXCEPT ![t] = ns] /\ stack \in [Thread -> Seq(Scope)]
  BY <1>5 DEF Moves, HeapInv
<1>8. ChainInv'
  BY <1>1, <1>2, <1>7, ChainStays
<1> QED BY <1>6, <1>8

LEMMA TwoAppended ==
  ASSUME NEW S, NEW s \in Seq(S), NEW x \in S, NEW y \in S
  PROVE  s \o <<x, y>> = Append(Append(s, x), y)
OBVIOUS

LEMMA CallKeeps ==
  ASSUME HeapInv, ChainInv, CallHandler PROVE HeapInv' /\ ChainInv'
<1>1. PICK t \in Thread : t = Current /\ t \in ToSet(chain)
  BY ChainFacts
<1>2. PICK ss \in Seq(Scope) : ss = stack[t] /\ StackSound(ss) /\ ss # <<>>
  BY <1>1 DEF HeapInv, CallHandler, Started
<1>3. PICK r \in Scope : r = Last(ss) /\ r = Top(t) /\ r.todo # <<>> /\ Front(ss) \in Seq(Scope)
  <2>1. Last(ss) \in Scope /\ Front(ss) \in Seq(Scope)
    BY <1>2, Fronts
  <2>2. Top(t) = Last(ss) /\ Top(t).todo # <<>>
    BY <1>1, <1>2 DEF CallHandler, Top
  <2> QED BY <2>1, <2>2
<1>4. PICK h : h = NewScope("close", FALSE, Main)
  OBVIOUS
<1>5. /\ h \in Scope /\ h.id = made + 1 /\ h.exit = "run" /\ h.form = "close" /\ ~ h.va
      /\ h.tbc = <<>> /\ h.todo = <<>>
  <2>1. made \in Nat
    BY DEF HeapInv, HeapTypes
  <2>2. h \in Scope
    BY <1>4, <2>1, NewScopeType DEF Form, Gate
  <2> QED BY <1>4, <2>2 DEF NewScope
<1>6. /\ stack' = [stack EXCEPT ![t] = Front(@) \o <<Called(r), h>>]
      /\ closings' = [closings EXCEPT ![Last(r.todo)] = @ + 1]
      /\ made' = made + 1 /\ live' = Append(live, made + 1)
      /\ UNCHANGED <<va, owner, lost, chain, status, closed>>
  BY <1>1, <1>3, <1>4, <1>5 DEF CallHandler, Called
<1>7. Called(r) \in Scope
  <2>0. PICK n \in Nat : n = Len(ss) /\ n \in 1 .. n
    BY <1>2
  <2>1. r = ss[n]
    <3>1. Last(ss) = ss[n]
      BY <2>0 DEF Last
    <3> QED BY <1>3, <3>1, Zenon
  <2>2. ScopeSound(ss, n)
    BY <1>2, <2>0 DEF StackSound
  <2>3. IsInjective(r.todo) /\ r.tbc = <<>>
    BY <1>3, <2>1, <2>2 DEF ScopeSound
  <2> QED BY <1>3, <2>3, CalledIs
<1>8. PICK ns : ns = Append(Append(Front(ss), Called(r)), h)
  OBVIOUS
<1>9. Front(ss) \o <<Called(r), h>> = ns
  BY <1>3, <1>5, <1>7, <1>8, TwoAppended
<1>10. stack' = [stack EXCEPT ![t] = ns] /\ stack \in [Thread -> Seq(Scope)]
  BY <1>2, <1>6, <1>9 DEF HeapInv
<1>11. CallStep(t, h)
  <2>1. stack' = [stack EXCEPT ![t] = Append(Append(Front(@), Called(Last(@))), h)]
    BY <1>2, <1>3, <1>8, <1>10
  <2> QED BY <1>2, <1>3, <1>5, <1>6, <2>1 DEF CallStep, NoneCollected
<1>12. Moves(t, ns)
  BY <1>2, <1>3, <1>5, <1>8, <1>11, CallMoves
<1>13. HeapInv'
  BY <1>12, MovesKeep
<1>14. ChainInv'
  BY <1>1, <1>6, <1>10, ChainStays
<1> QED BY <1>13, <1>14

(* What goes on below the scopes that were left. *)
Lands(ss, g, why) ==
  /\ why \in {"return", "error", "force"} /\ StackSound(ss) /\ g \in 1 .. Len(ss)
  /\ why = "force" => \A i \in 1 .. g : ss[i].form \notin Gate
  /\ ss[g].form = "close" /\ why = "error" => ss[g - 1].id \in lost'

LEMMA LandedIs ==
  ASSUME NEW ss, NEW g, NEW why, Lands(ss, g, why),
         NEW below, below = SubSeq(ss, 1, g - 1)
  PROVE  \/ Landed(below, ss[g].form, why) = below
         \/ /\ CanClose(below, why) /\ CanForget(below)
            /\ Landed(below, ss[g].form, why) = Append(Front(below), Closing(Last(below), why))
<1>1. PICK n \in Nat : n = Len(ss) /\ g \in 1 .. n /\ StackSound(ss)
  BY DEF Lands, StackSound
<1>2. StackSound(below) /\ Len(below) = g - 1 /\ \A i \in 1 .. g - 1 : below[i] = ss[i]
  BY <1>1, Parts, Zenon
<1>3. ASSUME below # <<>>, why # "return"
      PROVE  CanClose(below, why) /\ CanForget(below)
  <2>1. g - 1 \in 1 .. g - 1 /\ g - 1 \in 1 .. n /\ g - 1 < n /\ (g - 1) + 1 = g
    BY <1>1, <1>2, <1>3
  <2>2. Last(below) = ss[g - 1]
    BY <1>2, <2>1 DEF Last
  <2>3. ScopeSound(ss, g - 1)
    BY <1>1, <2>1 DEF StackSound
  <2>4. ss[g - 1].exit # "run" => ss[g].form = "close"
    BY <1>1, <2>1, <2>3 DEF ScopeSound
  <2>5. ss[g].form = "close" => why = "error"
    BY <1>1, <1>3 DEF Lands, Gate
  <2>6. CanForget(below)
    BY <2>2, <2>4, <2>5 DEF CanForget, Lands
  <2>7. why = "force" => Gateless(below)
    BY <1>1, <1>2 DEF Lands, Gateless
  <2> QED BY <1>2, <1>3, <2>6, <2>7 DEF CanClose, Lands
<1>4. CASE below = <<>>
  BY <1>4 DEF Landed
<1>5. CASE below # <<>> /\ (why = "return" \/ (why = "error" /\ ss[g].form = "pcall"))
  BY <1>5 DEF Landed
<1>6. CASE below # <<>> /\ ~ (why = "return" \/ (why = "error" /\ ss[g].form = "pcall"))
  <2>1. Landed(below, ss[g].form, why) = Append(Front(below), Closing(Last(below), why))
    BY <1>6 DEF Landed
  <2>2. CanClose(below, why) /\ CanForget(below)
    BY <1>3, <1>6
  <2> QED BY <2>1, <2>2
<1> QED BY <1>4, <1>5, <1>6

(* The threads that stay on the chain, when the last goes off it. *)
LEMMA ChainShortens ==
  ASSUME ChainInv, Current # Main, NEW ns, stack' = [stack EXCEPT ![Current] = ns],
         stack \in [Thread -> Seq(Scope)], Clean(ns), NEW st, st # "running",
         st \in {"suspended", "dead", "collected"},
         chain' = Front(chain), status' = [status EXCEPT ![Current] = st], closed' = closed
  PROVE  ChainInv'
<1>1. /\ Current \in Coroutine
      /\ Front(chain) \in Seq(Thread) /\ Front(chain) # <<>> /\ Front(chain)[1] = Main
      /\ IsInjective(Front(chain)) /\ ToSet(Front(chain)) = ToSet(chain) \ {Current}
  BY ChainFront
<1>2. PICK c \in Coroutine : c = Current /\ c \in Thread
  BY <1>1 DEF Thread
<1>3. ChainTypes'
  BY <1>1, <1>2 DEF ChainTypes, ChainInv
<1>4. ASSUME NEW u \in Coroutine PROVE PlacedBy(u)
  <2>1. CASE u = c
    BY <1>1, <1>2, <2>1 DEF PlacedBy, ChainInv, ChainTypes
  <2>2. CASE u # c
    <3>1. /\ status'[u] = status[u] /\ stack'[u] = stack[u]
          /\ (u \in ToSet(chain') <=> u \in ToSet(chain))
      BY <1>1, <1>2, <2>2 DEF ChainInv, ChainTypes, Thread
    <3> QED BY <3>1 DEF PlacedBy, ChainInv, Placed, Waiting
  <2> QED BY <2>1, <2>2
<1> QED BY <1>3, <1>4, ChainKeeps

LEMMA TopIs ==
  ASSUME NEW ss \in Seq(Scope), ss # <<>>, NEW n \in Nat, n = Len(ss)
  PROVE  /\ n \in 1 .. n /\ Last(ss) = ss[n] /\ Last(ss) \in Scope
         /\ SubSeq(ss, n, n) = <<Last(ss)>> /\ SubSeq(ss, 1, n - 1) = Front(ss)
<1>1. n \in 1 .. n /\ Last(ss) = ss[n]
  BY DEF Last
<1>2. ss[n] \in Scope
  BY <1>1
<1>3. SubSeq(ss, n, n) = <<ss[n]>>
  <2>1. n \in Int /\ \A i \in n .. n : ss[i] \in Scope
    BY <1>2
  <2>2. /\ SubSeq(ss, n, n) \in Seq(Scope)
        /\ Len(SubSeq(ss, n, n)) = IF n <= n THEN n - n + 1 ELSE 0
        /\ \A i \in 1 .. n - n + 1 : SubSeq(ss, n, n)[i] = ss[n + i - 1]
    BY <2>1, SubSeqProperties
  <2>3. PICK q \in Seq(Scope) : q = SubSeq(ss, n, n)
    BY <2>2
  <2>4. Len(q) = 1 /\ q[1] = ss[n]
    <3>1. n - n + 1 = 1 /\ 1 \in 1 .. 1 /\ n + 1 - 1 = n
      OBVIOUS
    <3> QED BY <2>2, <2>3, <3>1
  <2>5. q = <<ss[n]>>
    <3>1. <<ss[n]>> \in Seq(Scope) /\ Len(<<ss[n]>>) = 1 /\ <<ss[n]>>[1] = ss[n]
      BY <1>2
    <3>2. \A i \in 1 .. Len(q) : q[i] = <<ss[n]>>[i]
      BY <2>4, <3>1
    <3> QED BY <2>4, <3>1, <3>2, SeqEqual
  <2> QED BY <2>3, <2>5
<1>4. SubSeq(ss, 1, n - 1) = Front(ss)
  BY DEF Front
<1> QED BY <1>1, <1>2, <1>3, <1>4

LEMMA FinishDrops ==
  ASSUME HeapInv, ChainInv, Finish
  PROVE  DropStep(Current, Len(stack[Current]),
                  Landed(Front(stack[Current]), Top(Current).form, Top(Current).exit))
<1>1. PICK t \in Thread : t = Current /\ t \in ToSet(chain)
  BY ChainFacts
<1>2. PICK ss \in Seq(Scope) : ss = stack[t] /\ StackSound(ss) /\ ss # <<>> /\ AllKnown(ss)
  BY <1>1 DEF HeapInv, Finish, Started
<1>3. PICK n \in Nat : n = Len(ss)
  OBVIOUS
<1>4. /\ n \in 1 .. n /\ Last(ss) = ss[n] /\ Last(ss) \in Scope
      /\ SubSeq(ss, n, n) = <<Last(ss)>> /\ SubSeq(ss, 1, n - 1) = Front(ss)
  BY <1>2, <1>3, TopIs
<1>5. PICK s \in Scope : s = ss[n] /\ s = Last(ss)
  BY <1>4
<1>6. Top(t) = s
  BY <1>2, <1>5 DEF Top
<1>7. PICK below : below = SubSeq(ss, 1, n - 1) /\ below = Front(ss)
  BY <1>4
<1>8. PICK ns : ns = Landed(below, s.form, s.exit)
  OBVIOUS
<1>9. /\ s.exit # "run" /\ s.todo = <<>>
      /\ Unwind(t, <<s>>)
      /\ stack' = [stack EXCEPT ![t] = ns]
      /\ lost' = IF s.form = "close" /\ s.exit = "error" THEN lost \cup {Last(below).id} ELSE lost
      /\ UNCHANGED <<made, owner, closings>>
  BY <1>1, <1>2, <1>6, <1>7, <1>8 DEF Finish
<1>10. NoneCollected' => NoneCollected
  <2>1. \A u \in Coroutine : status[u] = "collected" => status'[u] = "collected"
    <3>1. CASE status' = status
      BY <3>1
    <3>2. CASE status' = [status EXCEPT ![t] = "dead"]
      <4>1. ASSUME NEW u \in Coroutine, status[u] = "collected" PROVE u # t
        BY <1>1, <4>1 DEF ChainInv, Placed, Waiting
      <4> QED BY <3>2, <4>1 DEF ChainInv, ChainTypes
    <3> QED BY <1>1, <3>1, <3>2 DEF Finish
  <2> QED BY <2>1 DEF NoneCollected
<1>11. ScopeSound(ss, n) /\ Known(s)
  BY <1>2, <1>3, <1>4, <1>5 DEF StackSound, AllKnown
<1>12. Pending(s) = {}
  <2>1. s.tbc = <<>>
    BY <1>5, <1>9, <1>11 DEF ScopeSound
  <2> QED BY <1>9, <2>1, ToSetNone DEF Pending
<1>13. s.form = "close" => n - 1 \in 1 .. n /\ Last(below) = ss[n - 1]
  <2>1. ASSUME s.form = "close" PROVE n - 1 \in 1 .. n /\ Last(below) = ss[n - 1]
    <3>1. n # 1
      BY <1>5, <1>11, <2>1 DEF ScopeSound
    <3>2. n - 1 \in 1 .. n - 1 /\ n - 1 \in 1 .. n
      BY <1>4, <3>1
    <3>3. Len(below) = n - 1 /\ \A i \in 1 .. n - 1 : below[i] = ss[i]
      BY <1>2, <1>3, <1>7, Fronts
    <3> QED BY <3>2, <3>3 DEF Last
  <2> QED BY <2>1
<1>14. lost \subseteq lost' /\ lost' \subseteq 1 .. made
  <2>1. lost \subseteq 1 .. made
    BY DEF HeapInv, HeapTypes
  <2>2. s.form = "close" => Last(below).id \in 1 .. made
    BY <1>2, <1>3, <1>13 DEF AllKnown, Known
  <2> QED BY <1>9, <2>1, <2>2
<1>15. Lands(ss, n, s.exit)
  <2>1. s.exit \in {"return", "error", "force"}
    BY <1>9 DEF Scope
  <2>2. s.exit = "force" => \A i \in 1 .. n : ss[i].form \notin Gate
    BY <1>5, <1>11 DEF ScopeSound
  <2>3. ss[n].form = "close" /\ s.exit = "error" => ss[n - 1].id \in lost'
    BY <1>5, <1>9, <1>13
  <2> QED BY <1>2, <1>3, <1>4, <2>1, <2>2, <2>3 DEF Lands
<1>16. \/ ns = below
       \/ CanClose(below, s.exit) /\ CanForget(below)
          /\ ns = Append(Front(below), Closing(Last(below), s.exit))
  <2>1. ns = Landed(below, ss[n].form, s.exit) /\ below = SubSeq(ss, 1, n - 1)
    BY <1>5, <1>7, <1>8
  <2> QED BY <1>15, <2>1, LandedIs
<1>17. \A i \in n .. n : Pending(ss[i]) = {}
  <2>1. \A i \in n .. n : i = n
    OBVIOUS
  <2> QED BY <1>5, <1>12, <2>1
<1>18. Unwind(t, SubSeq(ss, n, n))
  BY <1>4, <1>5, <1>9
<1>19. DropStep(t, n, ns)
  BY <1>2, <1>3, <1>4, <1>7, <1>9, <1>10, <1>14, <1>16, <1>17, <1>18 DEF DropStep
<1> QED BY <1>1, <1>2, <1>3, <1>6, <1>7, <1>8, <1>19

LEMMA FinishKeeps ==
  ASSUME HeapInv, ChainInv, Finish PROVE HeapInv' /\ ChainInv'
<1>1. PICK t \in Thread : t = Current /\ t \in ToSet(chain)
  BY ChainFacts
<1>2. PICK ss \in Seq(Scope) : ss = stack[t]
  BY <1>1 DEF HeapInv
<1>3. PICK ns : ns = Landed(Front(ss), Top(t).form, Top(t).exit)
  OBVIOUS
<1>4. DropStep(t, Len(ss), ns)
  BY <1>1, <1>2, <1>3, FinishDrops
<1>5. HeapInv' /\ stack' = [stack EXCEPT ![t] = ns] /\ stack \in [Thread -> Seq(Scope)]
  BY <1>4, DropMoves, MovesKeep DEF DropStep, HeapInv
<1>6. CASE Front(ss) = <<>> /\ t # Main
  <2>1. status' = [status EXCEPT ![t] = "dead"] /\ chain' = Front(chain) /\ closed' = closed
    BY <1>1, <1>2, <1>6 DEF Finish
  <2>2. ns = <<>>
    BY <1>3, <1>6 DEF Landed
  <2>3. Clean(ns)
    BY <2>2 DEF Clean
  <2> QED BY <1>1, <1>5, <1>6, <2>1, <2>3, ChainShortens
<1>7. CASE ~ (Front(ss) = <<>> /\ t # Main)
  <2>1. UNCHANGED <<chain, status, closed>>
    BY <1>1, <1>2, <1>7 DEF Finish
  <2> QED BY <1>1, <1>5, <2>1, ChainStays
<1> QED BY <1>6, <1>7

LEMMA Greatest ==
  ASSUME NEW n \in Nat, NEW S, S \subseteq 1 .. n, S # {}
  PROVE  Max(S) \in S /\ \A x \in S : x <= Max(S)
<1>0. \A x \in S : x \in 1 .. n /\ n - x \in Nat
  OBVIOUS
<1>7. PICK T : T = {n - x : x \in S}
  OBVIOUS
<1>1. T \in SUBSET Nat /\ T # {}
  BY <1>0, <1>7
<1>2. PICK m \in T : \A y \in T : m <= y
  BY <1>1, Least
<1>3. PICK x \in S : m = n - x
  BY <1>2, <1>7
<1>4. \A y \in S : x >= y
  <2>1. ASSUME NEW y \in S PROVE x >= y
    <3>1. n - y \in T
      BY <1>7
    <3>2. n - x <= n - y
      BY <1>2, <1>3, <3>1
    <3> QED BY <1>0, <3>2
  <2> QED BY <2>1
<1>5. Max(S) \in S /\ \A y \in S : Max(S) >= y
  BY <1>3, <1>4, Zenon DEF Max
<1> QED BY <1>5

LEMMA GatesAre ==
  ASSUME NEW t, NEW ss \in Seq(Scope), ss = stack[t]
  PROVE  /\ Gates(t) = {i \in 1 .. Len(ss) : ss[i].form \in Gate}
         /\ Gates(t) = {} => Gateless(ss)
<1>1. DOMAIN ss = 1 .. Len(ss)
  OBVIOUS
<1>2. Gates(t) = {i \in 1 .. Len(ss) : ss[i].form \in Gate}
  BY <1>1 DEF Gates
<1> QED BY <1>2 DEF Gateless

LEMMA GateKeeps ==
  ASSUME HeapInv, ChainInv, YieldInGate PROVE HeapInv' /\ ChainInv'
<1>1. PICK t \in Thread : t = Current /\ t \in ToSet(chain)
  BY ChainFacts
<1>2. PICK ss \in Seq(Scope) : ss = stack[t] /\ StackSound(ss) /\ AllKnown(ss)
  BY <1>1 DEF HeapInv
<1>3. PICK n \in Nat : n = Len(ss)
  OBVIOUS
<1>4. PICK g \in 1 .. n : g = Max(Gates(t))
  <2>1. Gates(t) \subseteq 1 .. n /\ Gates(t) # {}
    BY <1>1, <1>2, <1>3, GatesAre DEF YieldInGate
  <2>2. Max(Gates(t)) \in Gates(t)
    BY <2>1, Greatest
  <2> QED BY <2>1, <2>2
<1>5. PICK gone, below : gone = SubSeq(ss, g, n) /\ below = SubSeq(ss, 1, g - 1)
  OBVIOUS
<1>6. /\ gone \in Seq(Scope) /\ Len(gone) = n - g + 1 /\ gone[1] = ss[g]
      /\ Ids(gone) = {ss[i].id : i \in g .. n}
      /\ Len(below) = g - 1 /\ \A i \in 1 .. g - 1 : below[i] = ss[i]
  <2>1. /\ Ids(gone) = {ss[i].id : i \in g .. n} /\ gone \in Seq(Scope)
        /\ Len(below) = g - 1 /\ \A i \in 1 .. g - 1 : below[i] = ss[i]
    <3>1. /\ gone \in Seq(Scope)
          /\ Len(below) = g - 1 /\ \A i \in 1 .. g - 1 : below[i] = ss[i]
      BY <1>2, <1>3, <1>5, Parts, Zenon
    <3>2. Ids(SubSeq(ss, g, n)) = IdsFrom(ss, g, n)
      <4>1. StackSound(ss)
        BY <1>2
      <4> QED BY ONLY <1>3, <4>1, Parts, n \in Nat, g \in 1 .. n, SMT
    <3> QED BY <1>5, <3>1, <3>2 DEF IdsFrom
  <2>2. Len(gone) = n - g + 1 /\ gone[1] = ss[g]
    <3>0. g \in Int /\ n \in Int /\ g <= n /\ \A i \in g .. n : i \in 1 .. n
      BY ONLY g \in 1 .. n, n \in Nat
    <3>1. \A i \in g .. n : ss[i] \in Scope
      BY <1>3, <3>0
    <3>2. /\ Len(SubSeq(ss, g, n)) = IF g <= n THEN n - g + 1 ELSE 0
          /\ \A i \in 1 .. n - g + 1 : SubSeq(ss, g, n)[i] = ss[g + i - 1]
      BY <3>0, <3>1, SubSeqProperties
    <3>3. 1 \in 1 .. n - g + 1 /\ g + 1 - 1 = g
      BY <3>0
    <3> QED BY <1>5, <3>1, <3>2, <3>3
  <2> QED BY <2>1, <2>2
<1>7. PICK ns : ns = Landed(below, ss[g].form, "error")
  OBVIOUS
<1>8. /\ Unwind(t, gone)
      /\ stack' = [stack EXCEPT ![t] = ns]
      /\ lost' = lost \cup Ids(gone) \cup (IF ss[g].form = "close" THEN {Last(below).id} ELSE {})
      /\ UNCHANGED <<made, owner, closings, chain, status, closed>>
  BY <1>1, <1>2, <1>3, <1>4, <1>5, <1>6, <1>7 DEF YieldInGate
<1>9. ss[g].form = "close" => g - 1 \in 1 .. n /\ Last(below) = ss[g - 1]
  <2>1. ASSUME ss[g].form = "close" PROVE g - 1 \in 1 .. n /\ Last(below) = ss[g - 1]
    <3>0. ScopeSound(ss, g)
      BY <1>2, <1>3 DEF StackSound
    <3>1. g # 1
      BY <3>0, <2>1 DEF ScopeSound
    <3>2. g - 1 \in 1 .. g - 1 /\ g - 1 \in 1 .. n
      BY <3>1
    <3> QED BY <1>6, <3>2 DEF Last
  <2> QED BY <2>1
<1>10. lost \subseteq lost' /\ lost' \subseteq 1 .. made
  <2>1. lost \subseteq 1 .. made
    BY DEF HeapInv, HeapTypes
  <2>2. \A i \in 1 .. n : ss[i].id \in 1 .. made
    BY <1>2, <1>3 DEF AllKnown, Known
  <2>3. ss[g].form = "close" => Last(below).id \in 1 .. made
    BY <1>9, <2>2
  <2>4. Ids(gone) \subseteq 1 .. made
    BY <1>6, <2>2
  <2> QED BY <1>8, <2>1, <2>3, <2>4
<1>11. Lands(ss, g, "error")
  BY <1>2, <1>3, <1>8, <1>9 DEF Lands
<1>12. \/ ns = below
       \/ CanClose(below, "error") /\ CanForget(below)
          /\ ns = Append(Front(below), Closing(Last(below), "error"))
  BY <1>5, <1>7, <1>11, LandedIs
<1>13. \A i \in g .. n : ss[i].id \in lost'
  BY <1>6, <1>8
<1>14. DropStep(t, g, ns)
  BY <1>2, <1>3, <1>5, <1>8, <1>10, <1>12, <1>13 DEF DropStep, NoneCollected
<1>15. HeapInv' /\ stack \in [Thread -> Seq(Scope)]
  BY <1>14, DropMoves, MovesKeep DEF HeapInv
<1>16. ChainInv'
  BY <1>1, <1>8, <1>15, ChainStays
<1> QED BY <1>15, <1>16

LEMMA YieldKeeps ==
  ASSUME HeapInv, ChainInv, Yield PROVE HeapInv' /\ ChainInv'
<1>1. PICK t \in Thread :
        /\ t = Current /\ t \in ToSet(chain) /\ stack[t] # <<>> /\ Last(stack[t]).exit = "run"
  BY OpenIs DEF Yield, Executing
<1>2. PICK ss \in Seq(Scope) : ss = stack[t] /\ StackSound(ss) /\ AllKnown(ss)
  BY <1>1 DEF HeapInv
<1>3. t \in Coroutine /\ Current # Main
  BY <1>1, ChainFront DEF Yield
<1>4. Clean(ss)
  <2>1. Gateless(ss)
    BY <1>1, <1>2, GatesAre DEF Yield
  <2> QED BY <1>1, <1>2, <2>1, CleanStack
<1>5. /\ chain' = Front(chain) /\ status' = [status EXCEPT ![t] = "suspended"]
      /\ UNCHANGED <<closed, made, owner, closings>>
  BY <1>1 DEF Yield
<1>6. stack \in [Thread -> Seq(Scope)] /\ status[t] # "collected"
  BY <1>1, <1>3 DEF HeapInv, ChainInv, Placed, Waiting
<1>7. NoneCollected' => NoneCollected
  BY <1>3, <1>5, <1>6 DEF NoneCollected, ChainInv, ChainTypes
<1>8. CASE closed[t]
  <2>1. /\ Unwind(t, ss) /\ stack' = [stack EXCEPT ![t] = <<>>]
        /\ lost' = lost \cup Ids(ss)
    BY <1>1, <1>2, <1>8 DEF Yield
  <2>2. PICK n \in Nat : n = Len(ss) /\ n > 0
    BY <1>1, <1>2
  <2>3. SubSeq(ss, 1, n) = ss /\ SubSeq(ss, 1, 0) = <<>>
    BY <2>2, SubSeqFull
  <2>4. \A i \in 1 .. n : ss[i].id \in Ids(ss)
    BY <2>2, IdsOf
  <2>5. Ids(ss) \subseteq 1 .. made
    BY <1>2, IdsOf DEF AllKnown, Known
  <2>6. lost \subseteq 1 .. made
    BY DEF HeapInv, HeapTypes
  <2>7. DropStep(t, 1, <<>>)
    <3>1. 1 \in 1 .. n /\ 1 - 1 = 0
      BY <2>2
    <3> QED BY <1>2, <1>5, <1>7, <2>1, <2>2, <2>3, <2>4, <2>5, <2>6, <3>1 DEF DropStep
  <2>8. HeapInv'
    BY <2>7, DropMoves, MovesKeep
  <2>9. Clean(<<>>)
    BY DEF Clean
  <2>10. ChainInv'
    BY <1>1, <1>3, <1>5, <1>6, <2>1, <2>9, ChainShortens
  <2> QED BY <2>8, <2>10
<1>9. CASE ~ closed[t]
  <2>1. UNCHANGED <<stack, live, va, lost>>
    BY <1>1, <1>9 DEF Yield
  <2>2. HeapInv'
    BY <1>5, <1>7, <2>1, HeapStill
  <2>3. stack' = [stack EXCEPT ![t] = ss]
    BY <1>2, <1>6, <2>1
  <2>4. ChainInv'
    BY <1>1, <1>3, <1>4, <1>5, <1>6, <2>3, ChainShortens
  <2> QED BY <2>2, <2>4
<1> QED BY <1>8, <1>9

LEMMA TemporaryKeeps ==
  ASSUME HeapInv, ChainInv, YieldTemporary PROVE HeapInv' /\ ChainInv'
<1>1. PICK t \in Thread :
        /\ t = Current /\ t \in ToSet(chain) /\ stack[t] # <<>> /\ Top(t) = Last(stack[t])
  BY OpenIs DEF YieldTemporary, Executing
<1>2. /\ t \in Coroutine /\ Current # Main
      /\ Last(Front(chain)) \in Thread /\ Last(Front(chain)) # t
  BY <1>1, ChainFront DEF YieldTemporary
<1>3. PICK to \in Thread : to = Last(Front(chain)) /\ to # t
  BY <1>2
<1>4. PICK s : s = Last(stack[t])
  OBVIOUS
<1>5. /\ chain' = Front(chain) /\ status' = [status EXCEPT ![t] = "collected"]
      /\ stack' = [stack EXCEPT ![t] = <<>>]
      /\ \/ va' = va
         \/ va' = [va EXCEPT ![t] = <<>>, ![to] = PopVarargs(@)]
      /\ live' = live \/ live' = PopLive(live, s.id)
      /\ lost' = lost \cup {s.id}
      /\ UNCHANGED <<closed, made, owner, closings>>
      /\ Len(stack[t]) = 1
  BY <1>1, <1>3, <1>4 DEF YieldTemporary, VarargsOf
<1>6. ~ NoneCollected'
  BY <1>2, <1>5 DEF NoneCollected, ChainInv, ChainTypes
<1>7. TempStep(t, to)
  BY <1>1, <1>3, <1>4, <1>5, <1>6 DEF TempStep
<1>8. HeapInv' /\ stack \in [Thread -> Seq(Scope)]
  BY <1>7, TempMoves, MovesKeep DEF HeapInv
<1>9. Clean(<<>>)
  BY DEF Clean
<1>10. ChainInv'
  BY <1>1, <1>2, <1>5, <1>8, <1>9, ChainShortens
<1> QED BY <1>8, <1>10

(* A coroutine that waits is put on the chain. *)
LEMMA ChainLengthens ==
  ASSUME ChainInv, NEW t \in Coroutine, Waiting(t), NEW ns, stack' = [stack EXCEPT ![t] = ns],
         stack \in [Thread -> Seq(Scope)],
         chain' = Append(chain, t), ChainTypes',
         status'[t] # "collected" /\ (status'[t] = "running" \/ closed'[t]),
         \A u \in Coroutine : u # t => status'[u] = status[u] /\ closed'[u] = closed[u]
  PROVE  ChainInv'
<1>1. ToSet(chain') = ToSet(chain) \cup {t}
  BY ChainAppend
<1>2. ASSUME NEW u \in Coroutine PROVE PlacedBy(u)
  <2>1. CASE u = t
    BY <1>1, <2>1 DEF PlacedBy
  <2>2. CASE u # t
    <3>1. /\ status'[u] = status[u] /\ stack'[u] = stack[u] /\ closed'[u] = closed[u]
          /\ (u \in ToSet(chain') <=> u \in ToSet(chain))
      BY <1>1, <2>2 DEF Thread
    <3> QED BY <3>1 DEF PlacedBy, ChainInv, Placed, Waiting
  <2> QED BY <2>1, <2>2
<1> QED BY <1>2, ChainKeeps

LEMMA ResumeKeeps ==
  ASSUME HeapInv, ChainInv, NEW t \in Coroutine, NEW hasVa \in BodyVarargs, Resume(t, hasVa)
  PROVE  HeapInv' /\ ChainInv'
<1>1. /\ status[t] = "suspended" /\ ~ closed[t] /\ t \in Thread /\ hasVa \in BOOLEAN
      /\ stack \in [Thread -> Seq(Scope)] /\ stack[t] \in Seq(Scope)
  BY LuaAssumption DEF Resume, Resumable, Thread, HeapInv
<1>2. Waiting(t) /\ Clean(stack[t])
  BY <1>1 DEF ChainInv, Placed
<1>3. /\ chain' = Append(chain, t) /\ status' = [status EXCEPT ![t] = "running"]
      /\ UNCHANGED <<closed, owner, closings, lost>>
  BY DEF Resume
<1>4. NoneCollected' => NoneCollected
  BY <1>1, <1>3 DEF NoneCollected, ChainInv, ChainTypes
<1>5. /\ ChainTypes'
      /\ status'[t] = "running"
      /\ \A u \in Coroutine : u # t => status'[u] = status[u] /\ closed'[u] = closed[u]
  <2>1. /\ chain' \in Seq(Thread) /\ chain' # <<>> /\ chain'[1] = Main /\ IsInjective(chain')
    BY <1>2, <1>3, ChainAppend
  <2> QED BY <1>3, <2>1 DEF ChainTypes, ChainInv
<1>6. CASE Started(t)
  <2>1. UNCHANGED <<stack, made, live, va>>
    BY <1>6 DEF Resume
  <2>2. HeapInv'
    BY <1>3, <1>4, <2>1, HeapStill
  <2>3. stack' = [stack EXCEPT ![t] = stack[t]]
    BY <1>1, <2>1
  <2>4. ChainInv'
    BY <1>1, <1>2, <1>3, <1>5, <2>3, ChainLengthens
  <2> QED BY <2>2, <2>4
<1>7. CASE ~ Started(t)
  <2>1. PICK s : s = NewScope("call", hasVa, Main)
    OBVIOUS
  <2>2. Push(t, s) /\ stack[t] = <<>>
    BY <1>7, <2>1 DEF Resume, Started
  <2>3. made \in Nat /\ lost \subseteq 1 .. made
    BY DEF HeapInv, HeapTypes
  <2>4. s \in Scope
    BY <1>1, <2>1, <2>3, NewScopeType DEF Form
  <2>5. PushStep(t, s)
    <3>1. /\ s.id = made + 1 /\ s.exit = "run" /\ s.tbc = <<>> /\ s.todo = <<>>
          /\ s.form = "call"
      BY <2>1 DEF NewScope
    <3> QED BY <1>3, <1>4, <2>2, <2>3, <3>1 DEF PushStep
  <2>6. PICK ns : ns = Append(stack[t], s)
    OBVIOUS
  <2>7. Moves(t, ns)
    BY <1>1, <2>4, <2>5, <2>6, PushMoves
  <2>8. HeapInv' /\ stack' = [stack EXCEPT ![t] = ns]
    BY <1>1, <2>7, MovesKeep DEF Moves
  <2>9. ChainInv'
    BY <1>1, <1>2, <1>3, <1>5, <2>8, ChainLengthens
  <2> QED BY <2>8, <2>9
<1> QED BY <1>6, <1>7

LEMMA CloseSuspendedKeeps ==
  ASSUME HeapInv, ChainInv, NEW t \in Coroutine, CloseSuspended(t)
  PROVE  HeapInv' /\ ChainInv'
<1>1. /\ status[t] = "suspended" /\ ~ closed[t] /\ t \in Thread
      /\ stack \in [Thread -> Seq(Scope)] /\ stack[t] \in Seq(Scope) /\ StackSound(stack[t])
  BY DEF CloseSuspended, Thread, HeapInv
<1>2. Waiting(t) /\ Clean(stack[t])
  BY <1>1 DEF ChainInv, Placed
<1>3. /\ status' = [status EXCEPT ![t] = "dead"] /\ closed' = [closed EXCEPT ![t] = TRUE]
      /\ UNCHANGED <<live, va, made, owner, closings, lost>>
  BY DEF CloseSuspended
<1>4. NoneCollected' => NoneCollected
  BY <1>1, <1>3 DEF NoneCollected, ChainInv, ChainTypes
<1>5. /\ status'[t] = "dead" /\ closed'[t]
      /\ \A u \in Coroutine : u # t => status'[u] = status[u] /\ closed'[u] = closed[u]
  BY <1>3 DEF ChainInv, ChainTypes
<1>6. CASE Started(t)
  <2>1. /\ chain' = Append(chain, t)
        /\ stack' = [stack EXCEPT ![t] = Append(Front(@), Closing(Last(@), "force"))]
        /\ stack[t] # <<>>
    BY <1>6 DEF CloseSuspended, Started
  <2>2. Gateless(stack[t]) /\ Last(stack[t]).exit = "run"
    <3>1. PICK n \in Nat : n = Len(stack[t]) /\ n \in 1 .. n
      BY <1>1, <2>1
    <3>2. Last(stack[t]) = stack[t][n]
      BY <3>1 DEF Last
    <3> QED BY <1>2, <3>1, <3>2 DEF Clean, Gateless
  <2>3. CloseStep(t, "force")
    BY <1>1, <1>3, <1>4, <2>1, <2>2 DEF CloseStep, CanClose
  <2>4. PICK ns : ns = Append(Front(stack[t]), Closing(Last(stack[t]), "force"))
    OBVIOUS
  <2>5. Moves(t, ns)
    BY <1>1, <2>3, <2>4, CloseMoves
  <2>6. HeapInv' /\ stack' = [stack EXCEPT ![t] = ns]
    BY <1>1, <2>5, MovesKeep DEF Moves
  <2>7. ChainTypes'
    <3>1. /\ chain' \in Seq(Thread) /\ chain' # <<>> /\ chain'[1] = Main /\ IsInjective(chain')
      BY <1>2, <2>1, ChainAppend
    <3> QED BY <1>3, <3>1 DEF ChainTypes, ChainInv
  <2>8. ChainInv'
    BY <1>1, <1>2, <1>5, <2>1, <2>6, <2>7, ChainLengthens
  <2> QED BY <2>6, <2>8
<1>7. CASE ~ Started(t)
  <2>1. UNCHANGED <<chain, stack>>
    BY <1>7 DEF CloseSuspended
  <2>2. HeapInv'
    BY <1>3, <1>4, <2>1, HeapStill
  <2>3. ChainTypes'
    BY <1>3, <2>1 DEF ChainTypes, ChainInv
  <2>4. ASSUME NEW u \in Coroutine PROVE PlacedBy(u)
    <3>1. CASE u = t
      BY <1>2, <1>5, <2>1, <3>1 DEF PlacedBy, Waiting
    <3>2. CASE u # t
      BY <1>5, <2>1, <3>2 DEF PlacedBy, ChainInv, Placed, Waiting
    <3> QED BY <3>1, <3>2
  <2> QED BY <2>2, <2>3, <2>4, ChainKeeps
<1> QED BY <1>6, <1>7

LEMMA CloseNormalKeeps ==
  ASSUME HeapInv, ChainInv, NEW u \in Coroutine, CloseNormal(u)
  PROVE  HeapInv' /\ ChainInv'
<1>1. PICK t \in Thread :
        /\ t = Current /\ t \in ToSet(chain) /\ stack[t] # <<>> /\ Last(stack[t]).exit = "run"
        /\ Top(t) = Last(stack[t]) /\ StackSound(stack[t])
  BY OpenIs DEF CloseNormal, Executing
<1>2. /\ status[u] = "running" /\ status' = [status EXCEPT ![u] = "dead"]
      /\ closed' = [closed EXCEPT ![u] = TRUE]
      /\ stack' = [stack EXCEPT ![t] = Append(Front(@), Closing(Last(@), "error"))]
      /\ UNCHANGED <<chain, live, va, made, owner, closings, lost>>
  BY <1>1 DEF CloseNormal
<1>3. ~ Waiting(u)
  BY <1>2 DEF ChainInv, Placed
<1>4. NoneCollected' => NoneCollected
  BY <1>2 DEF NoneCollected, ChainInv, ChainTypes
<1>5. CloseStep(t, "error")
  BY <1>1, <1>2, <1>4 DEF CloseStep, CanClose
<1>6. PICK ns : ns = Append(Front(stack[t]), Closing(Last(stack[t]), "error"))
  OBVIOUS
<1>7. Moves(t, ns)
  BY <1>5, <1>6, CloseMoves
<1>8. HeapInv' /\ stack' = [stack EXCEPT ![t] = ns] /\ stack \in [Thread -> Seq(Scope)]
  BY <1>7, MovesKeep DEF Moves, HeapInv
<1>9. ChainTypes'
  BY <1>2 DEF ChainTypes, ChainInv
<1>10. /\ status'[u] = "dead" /\ closed'[u]
       /\ \A w \in Coroutine : w # u => status'[w] = status[w] /\ closed'[w] = closed[w]
  BY <1>2 DEF ChainInv, ChainTypes
<1>11. ASSUME NEW w \in Coroutine PROVE PlacedBy(w)
  <2>1. CASE w = u
    BY <1>2, <1>3, <1>10, <2>1 DEF PlacedBy, Waiting
  <2>2. CASE w # u
    <3>1. w \in Thread /\ (w # t => stack'[w] = stack[w])
      BY <1>8 DEF Thread
    <3> QED BY <1>1, <1>2, <1>10, <2>2, <3>1 DEF PlacedBy, ChainInv, Placed, Waiting
  <2> QED BY <2>1, <2>2
<1> QED BY <1>8, <1>9, <1>11, ChainKeeps

-----------------------------------------------------------------------------
(* The invariant *)

LoadInv ==
  /\ loaded \in [Module -> {"absent", "marked", "loaded"}]
  /\ asking \in Module \cup {Main}
  /\ loads \in [Module -> Nat] /\ found \in [Module -> Nat] /\ unloads \in [Module -> Nat]
  /\ \A m \in Module :
       /\ loads[m] <= unloads[m] + 1 + found[m]
       /\ loaded[m] = "absent" => loads[m] <= unloads[m] + found[m]

OpsInv == ops \in 0 .. MaxOps

Inv == HeapInv /\ ChainInv /\ LoadInv /\ OpsInv

LEMMA InitInv == Init => Inv
<1> SUFFICES ASSUME Init PROVE Inv
  OBVIOUS
<1>2. stack \in [Thread -> Seq(Scope)] /\ \A t \in Thread : stack[t] = <<>>
  BY DEF Init
<1>3. HeapTypes
  <2>1. \A t \in Thread : Bottom(t) \in Seq(0 .. 0)
    <3>1. 0 \in 0 .. 0
      OBVIOUS
    <3>2. <<0>> \in Seq(0 .. 0) /\ <<>> \in Seq(0 .. 0)
      BY <3>1
    <3> QED BY <3>2, Zenon DEF Bottom
  <2> QED BY <2>1 DEF Init, HeapTypes
<1>4. Ids(<<>>) = {} /\ AllKnown(<<>>) /\ StackSound(<<>>) /\ Clean(<<>>)
  BY SoundNone DEF Ids, AllKnown, Clean
<1>5. Apart /\ Settled /\ LiveEnvKept
  BY <1>2, <1>4 DEF Apart, Settled, LiveEnvKept, Init
<1>6. VarargsKept
  BY <1>2, VarargsNone DEF VarargsKept, OpenVarargs, Init
<1>7. HeapInv
  BY <1>2, <1>3, <1>4, <1>5, <1>6 DEF HeapInv
<1>8. ChainInv
  <2>1. /\ chain = <<Main>> /\ status = [t \in Coroutine |-> "suspended"]
        /\ closed = [t \in Coroutine |-> FALSE]
    BY DEF Init
  <2>2. ToSet(<<Main>>) = {Main} /\ IsInjective(<<Main>>)
    <3>1. DOMAIN <<Main>> = {1}
      OBVIOUS
    <3> QED BY <3>1 DEF ToSet, IsInjective
  <2>3. \A t \in Coroutine : Placed(t)
    BY <1>2, <1>4, <2>1, <2>2, LuaAssumption DEF Placed, Waiting, Thread
  <2>4. ChainTypes
    BY <2>1, <2>2 DEF ChainTypes, Thread
  <2> QED BY <2>3, <2>4 DEF ChainInv
<1>9. LoadInv /\ OpsInv
  BY LuaAssumption DEF Init, LoadInv, OpsInv
<1> QED BY <1>7, <1>8, <1>9 DEF Inv

LEMMA HeapStep ==
  ASSUME HeapInv, ChainInv, LoadInv, Next PROVE HeapInv' /\ ChainInv'
<1>1. CASE RunLine \/ RunChunk
  BY <1>1, RunKeeps
<1>2. CASE \E form \in {"call", "pcall"} : Enter(form)
  <2>1. PICK form \in {"call", "pcall"} : Enter(form)
    BY <1>2
  <2>2. /\ form \in {"call", "pcall", "load", "search"} /\ FALSE \in BOOLEAN
        /\ Main \in Module \cup {Main}
        /\ Open /\ Push(Current, NewScope(form, FALSE, Main))
        /\ UNCHANGED <<chain, status, closed, owner, closings, lost>>
    BY <2>1 DEF Enter, Executing
  <2> QED BY <2>2, EnterKeeps
<1>3. CASE Declare
  BY <1>3, DeclareKeeps
<1>4. CASE CallHandler
  BY <1>4, CallKeeps
<1>5. CASE Finish
  BY <1>5, FinishKeeps
<1>6. CASE \E why \in {"return", "error"} : Leave(why)
  BY <1>6, LeaveKeeps DEF Leave
<1>7. CASE Yield
  BY <1>7, YieldKeeps
<1>8. CASE YieldTemporary
  BY <1>8, TemporaryKeeps
<1>9. CASE YieldInGate
  BY <1>9, GateKeeps
<1>10. ASSUME NEW t \in Coroutine, NEW b \in BodyVarargs, Resume(t, b)
       PROVE  HeapInv' /\ ChainInv'
  BY <1>10, ResumeKeeps
<1>11. ASSUME NEW t \in Coroutine, CloseSuspended(t) PROVE HeapInv' /\ ChainInv'
  BY <1>11, CloseSuspendedKeeps
<1>12. ASSUME NEW t \in Coroutine, CloseNormal(t) PROVE HeapInv' /\ ChainInv'
  BY <1>12, CloseNormalKeeps
<1>13. ASSUME NEW m \in Module, Require(m) \/ (LoadAnswer /\ m = asking)
       PROVE  HeapInv' /\ ChainInv'
  <2>1. /\ TRUE \in BOOLEAN /\ m \in Module \cup {Main}
        /\ Open /\ Push(Current, NewScope("load", TRUE, m))
        /\ UNCHANGED <<chain, status, closed, owner, closings, lost>>
    BY <1>13 DEF Require, LoadAnswer, CallLoader, Executing
  <2>2. "load" \in {"call", "pcall", "load", "search"}
    OBVIOUS
  <2> QED BY <2>1, <2>2, EnterKeeps
<1>14. ASSUME NEW m \in Module, AskGuest(m) \/ (AskNext /\ m = asking)
       PROVE  HeapInv' /\ ChainInv'
  <2>1. /\ FALSE \in BOOLEAN /\ m \in Module \cup {Main}
        /\ Open /\ Push(Current, NewScope("search", FALSE, m))
        /\ UNCHANGED <<chain, status, closed, owner, closings, lost>>
    BY <1>14 DEF AskGuest, AskNext, CallSearcher, Executing
  <2>2. "search" \in {"call", "pcall", "load", "search"}
    OBVIOUS
  <2> QED BY <2>1, <2>2, EnterKeeps
<1>15. CASE NotFound
  <2>1. "error" \in {"return", "error"} /\ Exit("error")
    BY <1>15 DEF NotFound
  <2> QED BY <2>1, LeaveKeeps
<1>16. ASSUME NEW m \in Module, Unload(m) \/ SetLoaded(m) PROVE HeapInv' /\ ChainInv'
  <2>1. UNCHANGED guest
    BY <1>16 DEF Unload, SetLoaded
  <2>2. HeapInv'
    BY <2>1, HeapStill DEF guest, NoneCollected
  <2>3. ChainTypes'
    BY <2>1 DEF guest, ChainInv, ChainTypes
  <2>4. \A u \in Coroutine : PlacedBy(u)
    BY <2>1 DEF guest, ChainInv, Placed, PlacedBy, Waiting
  <2> QED BY <2>2, <2>3, <2>4, ChainKeeps
<1>17. CASE LoadAnswer \/ AskNext
  <2>1. asking \in Module
    BY <1>17 DEF LoadAnswer, AskNext, LoadInv
  <2> QED BY <1>13, <1>14, <1>17, <2>1
<1>18. CASE \E m \in Module : Require(m) \/ AskGuest(m) \/ Unload(m) \/ SetLoaded(m)
  BY <1>13, <1>14, <1>16, <1>18
<1>19. CASE \E t \in Coroutine :
              (\E b \in BodyVarargs : Resume(t, b)) \/ CloseSuspended(t) \/ CloseNormal(t)
  BY <1>10, <1>11, <1>12, <1>19
<1> QED BY <1>1, <1>2, <1>3, <1>4, <1>5, <1>6, <1>7, <1>8, <1>9, <1>15, <1>17, <1>18, <1>19
        DEF Next

LEMMA LoadStep ==
  ASSUME HeapInv, ChainInv, LoadInv, OpsInv, Next PROVE LoadInv' /\ OpsInv'
<1>1. Op => OpsInv'
  BY LuaAssumption DEF Op, OpsInv
<1>2. UNCHANGED require => LoadInv'
  BY DEF LoadInv, require
<1>3. UNCHANGED ops => OpsInv'
  BY DEF OpsInv
<1>4. CASE RunLine \/ RunChunk \/ \E form \in {"call", "pcall"} : Enter(form)
  BY <1>1, <1>2, <1>4 DEF RunLine, RunChunk, Enter
<1>5. CASE Declare \/ CallHandler \/ \E why \in {"return", "error"} : Leave(why)
  BY <1>1, <1>2, <1>3, <1>5 DEF Declare, CallHandler, Leave, Exit
<1>6. CASE Yield \/ YieldTemporary \/ YieldInGate
  BY <1>2, <1>3, <1>6 DEF Yield, YieldTemporary, YieldInGate
<1>7. CASE Finish
  <2>1. UNCHANGED <<loads, found, unloads, ops>>
    BY <1>7 DEF Finish
  <2>2. /\ loaded' \in [Module -> {"absent", "marked", "loaded"}]
        /\ \A m \in Module : loaded'[m] = "absent" => loaded[m] = "absent"
    <3>1. PICK x : loaded' = loaded \/ loaded' = [loaded EXCEPT ![x] = "loaded"]
      BY <1>7 DEF Finish
    <3> QED BY <3>1 DEF LoadInv
  <2>3. asking' \in Module \cup {Main}
    <3>1. PICK t \in Thread : t = Current
      BY ChainFacts
    <3>2. Top(t).mod \in Module \cup {Main}
      <4>1. stack[t] \in Seq(Scope) /\ stack[t] # <<>>
        BY <1>7, <3>1 DEF HeapInv, Finish, Started
      <4>2. Top(t) \in Scope
        BY <4>1, Fronts DEF Top
      <4> QED BY <4>2 DEF Scope
    <3>3. asking' = asking \/ asking' = Top(t).mod
      BY <1>7, <3>1 DEF Finish
    <3> QED BY <3>2, <3>3 DEF LoadInv
  <2> QED BY <1>3, <2>1, <2>2, <2>3 DEF LoadInv
<1>8. ASSUME NEW t \in Coroutine, NEW b, Resume(t, b) PROVE LoadInv' /\ OpsInv'
  BY <1>1, <1>2, <1>3, <1>8 DEF Resume
<1>9. ASSUME NEW t \in Coroutine, CloseSuspended(t) \/ CloseNormal(t) PROVE LoadInv' /\ OpsInv'
  BY <1>2, <1>3, <1>9 DEF CloseSuspended, CloseNormal
<1>10. ASSUME NEW m \in Module, Require(m) PROVE LoadInv' /\ OpsInv'
  <2>1. /\ loaded[m] = "absent" /\ Op
        /\ loaded' = [loaded EXCEPT ![m] = "marked"]
        /\ loads' = [loads EXCEPT ![m] = @ + 1]
        /\ UNCHANGED <<asking, found, unloads>>
    BY <1>10 DEF Require, CallLoader, Mark
  <2> QED BY <1>1, <2>1 DEF LoadInv
<1>11. CASE LoadAnswer
  <2>1. PICK m \in Module : m = asking
    BY <1>11 DEF LoadAnswer, LoadInv
  <2>2. /\ loaded' = [loaded EXCEPT ![m] = "marked"]
        /\ loads' = [loads EXCEPT ![m] = @ + 1] /\ found' = [found EXCEPT ![m] = @ + 1]
        /\ asking' = Main /\ UNCHANGED <<unloads, ops>>
    BY <1>11, <2>1 DEF LoadAnswer, CallLoader, Mark
  <2> QED BY <1>3, <2>2 DEF LoadInv
<1>12. ASSUME NEW m, AskGuest(m) \/ AskNext PROVE LoadInv' /\ OpsInv'
  <2>1. Op /\ asking' = Main /\ UNCHANGED <<loaded, loads, found, unloads>>
    BY <1>12 DEF AskGuest, AskNext, CallSearcher
  <2> QED BY <1>1, <2>1 DEF LoadInv
<1>13. CASE NotFound
  <2>1. asking' = Main /\ UNCHANGED <<loaded, loads, found, unloads, ops>>
    BY <1>13 DEF NotFound, Exit
  <2> QED BY <1>3, <2>1 DEF LoadInv
<1>14. ASSUME NEW m \in Module, Unload(m) PROVE LoadInv' /\ OpsInv'
  <2>1. /\ Op /\ loaded' = [loaded EXCEPT ![m] = "absent"]
        /\ unloads' = [unloads EXCEPT ![m] = @ + 1] /\ UNCHANGED <<asking, loads, found>>
    BY <1>14 DEF Unload
  <2> QED BY <1>1, <2>1 DEF LoadInv
<1>15. ASSUME NEW m \in Module, SetLoaded(m) PROVE LoadInv' /\ OpsInv'
  <2>1. /\ Op /\ loaded' = [loaded EXCEPT ![m] = "loaded"]
        /\ UNCHANGED <<asking, loads, found, unloads>>
    BY <1>15 DEF SetLoaded
  <2> QED BY <1>1, <2>1 DEF LoadInv
<1> QED BY <1>4, <1>5, <1>6, <1>7, <1>8, <1>9, <1>10, <1>11, <1>12, <1>13, <1>14, <1>15 DEF Next

LEMMA NextInv == Inv /\ [Next]_vars => Inv'
<1>1. ASSUME Inv, Next PROVE Inv'
  BY <1>1, HeapStep, LoadStep DEF Inv
<1>2. ASSUME Inv, UNCHANGED vars PROVE Inv'
  <2>1. UNCHANGED <<guest, require, ops>>
    BY <1>2 DEF vars
  <2>2. HeapInv'
    BY <1>2, <2>1, HeapStill DEF Inv, guest, NoneCollected
  <2>3. ChainTypes'
    BY <1>2, <2>1 DEF Inv, guest, ChainInv, ChainTypes
  <2>4. \A u \in Coroutine : PlacedBy(u)
    BY <1>2, <2>1 DEF Inv, guest, ChainInv, Placed, PlacedBy, Waiting
  <2>5. ChainInv'
    BY <2>3, <2>4, ChainKeeps
  <2>6. LoadInv' /\ OpsInv'
    BY <1>2, <2>1 DEF Inv, require, LoadInv, OpsInv
  <2> QED BY <2>2, <2>5, <2>6 DEF Inv
<1> QED BY <1>1, <1>2

LEMMA Invariance == Spec => []Inv
<1>1. Init => Inv
  BY InitInv
<1>2. Inv /\ [Next]_vars => Inv'
  BY NextInv
<1> QED BY <1>1, <1>2, PTL DEF Spec

-----------------------------------------------------------------------------
(* What is proved *)

(* Threads: everything is of its type; a coroutine is at one place of one  *)
(* chain, which agrees with its status; and one that is suspended has no C *)
(* function on its stack and no scope half left, so that resume goes on    *)
(* where yield stopped.                                                    *)
THEOREM ThreadsAreSound == Spec => []ThreadsSound
<1>1. Inv => ThreadsSound
  <2>1. SUFFICES ASSUME Inv PROVE ThreadsSound
    OBVIOUS
  <2>2. TypeOK
    BY <2>1 DEF Inv, HeapInv, HeapTypes, ChainInv, ChainTypes, LoadInv, OpsInv, TypeOK
  <2>3. SuspendedClean
    <3>1. ASSUME NEW t \in Coroutine, Waiting(t)
          PROVE  Gates(t) = {} /\ \A i \in DOMAIN stack[t] : stack[t][i].exit = "run"
      <4>1. stack[t] \in Seq(Scope) /\ Clean(stack[t])
        BY <2>1, <3>1 DEF Inv, HeapInv, ChainInv, Placed, Thread
      <4>2. DOMAIN stack[t] = 1 .. Len(stack[t])
        BY <4>1
      <4>3. Gates(t) = {}
        BY <4>1, <4>2 DEF Clean, Gates
      <4> QED BY <4>1, <4>2, <4>3 DEF Clean
    <3> QED BY <3>1 DEF SuspendedClean
  <2>4. OneChain
    BY <2>1 DEF Inv, ChainInv, ChainTypes, Placed, OneChain
  <2> QED BY <2>2, <2>3, <2>4 DEF ThreadsSound
<1> QED BY <1>1, Invariance, PTL

(* Frames: the bubble of every open scope of every thread is a root, and,  *)
(* unless a suspended coroutine was collected, each thread's stack of      *)
(* varargs holds those of its open scopes.                                 *)
THEOREM FramesAreKept == Spec => []FramesKept
<1>1. Inv => FramesKept
  BY DEF Inv, HeapInv, FramesKept
<1> QED BY <1>1, Invariance, PTL

(* Handlers: none is called twice, and none is forgotten but with a scope  *)
(* that was thrown away, failed, or was a line of the REPL.                *)
THEOREM HandlersRunOnce == Spec => []ClosedOnce
<1>1. Inv => ClosedOnce
  <2>1. SUFFICES ASSUME Inv PROVE ClosedOnce
    OBVIOUS
  <2>2. ASSUME NEW v \in DOMAIN owner, NEW t \in Thread, IsPending(v, stack[t])
        PROVE  ToBeClosed(v)
    <3>1. stack[t] \in Seq(Scope) /\ AllKnown(stack[t])
      BY <2>1 DEF Inv, HeapInv
    <3>2. PICK i \in 1 .. Len(stack[t]) : v \in Pending(stack[t][i])
      BY <2>2 DEF IsPending
    <3>3. owner[v] = stack[t][i].id
      BY <3>1, <3>2 DEF AllKnown, Known
    <3>4. i \in DOMAIN stack[t]
      BY <3>1, <3>2
    <3> QED BY <3>2, <3>3, <3>4 DEF ToBeClosed, Pending
  <2>3. Settled
    BY <2>1 DEF Inv, HeapInv
  <2> QED BY <2>2, <2>3 DEF Settled, ClosedOnce
<1> QED BY <1>1, Invariance, PTL

(* Modules: a loader is not called again before its entry was cleared,     *)
(* unless require asked a searcher of the guest for it.                    *)
THEOREM ModulesLoadOnce == Spec => []LoadedOnce
<1>1. Inv => LoadedOnce
  BY DEF Inv, LoadInv, LoadedOnce
<1> QED BY <1>1, Invariance, PTL

LEMMA NoneReturns ==
  ASSUME Inv, [Next]_vars, NEW t \in Coroutine, Waiting(t), closed[t] \/ status[t] = "dead"
  PROVE  t \notin ToSet(chain')
<1>1. ChainInv /\ HeapInv
  BY DEF Inv
<1>2. t \notin ToSet(chain)
  BY DEF Waiting
<1>3. chain' = chain => t \notin ToSet(chain')
  BY <1>2
<1>4. Current # Main /\ chain' = Front(chain) => t \notin ToSet(chain')
  BY <1>1, <1>2, ChainFront
<1>5. ASSUME NEW u \in Coroutine, status[u] = "suspended", ~ closed[u], chain' = Append(chain, u)
      PROVE  t \notin ToSet(chain')
  <2>1. Waiting(u)
    BY <1>1, <1>5 DEF ChainInv, Placed
  <2>2. ToSet(chain') = ToSet(chain) \cup {u}
    BY <1>1, <1>5, <2>1, ChainAppend
  <2>3. u # t
    BY <1>5
  <2> QED BY <1>2, <2>2, <2>3
<1>6. CASE UNCHANGED vars
  BY <1>3, <1>6 DEF vars, guest
<1>7. CASE RunLine \/ RunChunk \/ (\E form \in {"call", "pcall"} : Enter(form)) \/ Declare
           \/ CallHandler \/ (\E why \in {"return", "error"} : Leave(why)) \/ YieldInGate
  BY <1>3, <1>7 DEF RunLine, RunChunk, Enter, Declare, CallHandler, Leave, Exit, YieldInGate
<1>8. CASE Finish
  BY <1>3, <1>4, <1>8 DEF Finish
<1>9. CASE Yield \/ YieldTemporary
  BY <1>4, <1>9 DEF Yield, YieldTemporary
<1>10. ASSUME NEW u \in Coroutine, NEW b, Resume(u, b) PROVE t \notin ToSet(chain')
  BY <1>5, <1>10 DEF Resume, Resumable
<1>11. ASSUME NEW u \in Coroutine, CloseSuspended(u) PROVE t \notin ToSet(chain')
  BY <1>3, <1>5, <1>11 DEF CloseSuspended
<1>12. ASSUME NEW u \in Coroutine, CloseNormal(u) PROVE t \notin ToSet(chain')
  BY <1>3, <1>12 DEF CloseNormal
<1>13. ASSUME NEW m \in Module, Require(m) \/ AskGuest(m) \/ Unload(m) \/ SetLoaded(m)
       PROVE  t \notin ToSet(chain')
  BY <1>3, <1>13 DEF Require, CallLoader, AskGuest, CallSearcher, Unload, SetLoaded, guest
<1>14. CASE LoadAnswer \/ AskNext \/ NotFound
  BY <1>3, <1>14 DEF LoadAnswer, CallLoader, AskNext, CallSearcher, NotFound, Exit
<1> QED BY <1>6, <1>7, <1>8, <1>9, <1>10, <1>11, <1>12, <1>13, <1>14 DEF Next

(* Coroutines: one that has ended or was closed, once it waits, stays off  *)
(* the chain for good.                                                     *)
THEOREM NoneRevives == Spec => NoRevival
<1>1. Inv /\ [Next]_vars =>
        [\A t \in Coroutine :
           Waiting(t) /\ (closed[t] \/ status[t] = "dead") => t \notin ToSet(chain')]_vars
  BY NoneReturns
<1> QED BY <1>1, Invariance, PTL DEF Spec, NoRevival
=============================================================================
