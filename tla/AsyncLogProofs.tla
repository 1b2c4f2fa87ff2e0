--------------------------- MODULE AsyncLogProofs ---------------------------
(***************************************************************************)
(* Proofs about AsyncLog: the types of its state, that accepted lines are  *)
(* neither doubled nor overtaken nor lost unnoticed, and that only a full  *)
(* access channel brings the process down, for all numbers of threads,     *)
(* capacities, stack depths, events and faults.                            *)
(***************************************************************************)
EXTENDS AsyncLog, SequenceTheorems, TLAPS

USE LogAssumption

(* Kept.                                                                   *)

\* Nothing was accepted, nothing is there.
LEMMA KeptEmpty == ASSUME NEW gone PROVE Kept(<<>>, <<>>, gone)
BY DEF Kept

\* A line that is accepted takes the last place.
LEMMA KeptAppend ==
    ASSUME NEW s \in Seq(Line), NEW all \in Seq(Line), NEW gone, NEW x \in Line,
           Kept(s, all, gone), \A p \in DOMAIN all : all[p] # x, x \notin gone
    PROVE  Kept(Append(s, x), Append(all, x), gone)
<1>1. PICK t, m : t = Append(s, x) /\ m = Append(all, x)
  OBVIOUS
<1>2. /\ DOMAIN s = 1..Len(s) /\ DOMAIN all = 1..Len(all) /\ Len(s) \in Nat /\ Len(all) \in Nat
      /\ DOMAIN t = 1..(Len(s) + 1) /\ DOMAIN m = 1..(Len(all) + 1)
      /\ t[Len(s) + 1] = x /\ m[Len(all) + 1] = x
      /\ \A i \in DOMAIN s : t[i] = s[i]
      /\ \A p \in DOMAIN all : m[p] = all[p]
  BY <1>1, AppendProperties, LenProperties
<1>3. \A p, q \in DOMAIN m : p # q => m[p] # m[q]
  BY <1>2 DEF Kept
<1>4. {t[i] : i \in DOMAIN t} = {m[p] : p \in DOMAIN m} \ gone
  <2>1. {s[i] : i \in DOMAIN s} = {all[p] : p \in DOMAIN all} \ gone
    BY DEF Kept
  <2>2. {t[i] : i \in DOMAIN t} = {s[i] : i \in DOMAIN s} \cup {x}
    <3>1. DOMAIN t = DOMAIN s \cup {Len(s) + 1}
      BY <1>2
    <3> QED
      BY <1>2, <3>1
  <2>3. {m[p] : p \in DOMAIN m} = {all[p] : p \in DOMAIN all} \cup {x}
    <3>1. DOMAIN m = DOMAIN all \cup {Len(all) + 1}
      BY <1>2
    <3> QED
      BY <1>2, <3>1
  <2> QED
    BY <2>1, <2>2, <2>3
<1>5. ASSUME NEW i \in DOMAIN t, NEW j \in DOMAIN t, i < j
      PROVE  \E p, q \in DOMAIN m : p < q /\ m[p] = t[i] /\ m[q] = t[j]
  <2>0. i \in DOMAIN s /\ t[i] = s[i] /\ DOMAIN all \subseteq DOMAIN m
    BY <1>2, <1>5
  <2>1. CASE j \in DOMAIN s
    <3>1. PICK p, q \in DOMAIN all : p < q /\ all[p] = s[i] /\ all[q] = s[j]
      BY <1>5, <2>0, <2>1 DEF Kept
    <3> QED
      BY <1>2, <2>0, <2>1, <3>1
  <2>2. CASE j \notin DOMAIN s
    <3>1. j = Len(s) + 1 /\ t[j] = x
      BY <1>2, <2>2
    <3>2. PICK p \in DOMAIN all : all[p] = s[i]
      BY <2>0 DEF Kept
    <3>3. p \in DOMAIN m /\ Len(all) + 1 \in DOMAIN m /\ p < Len(all) + 1
      BY <1>2, <3>2
    <3> QED
      BY <1>2, <2>0, <3>1, <3>2, <3>3
  <2> QED
    BY <2>1, <2>2
<1>6. Kept(t, m, gone)
  BY <1>3, <1>4, <1>5, Zenon DEF Kept
<1> QED
  BY <1>1, <1>6

\* A stretch of lines is destroyed.
LEMMA KeptCut ==
    ASSUME NEW a \in Seq(Line), NEW b \in Seq(Line), NEW c \in Seq(Line),
           NEW all \in Seq(Line), NEW gone, Kept((a \o b) \o c, all, gone)
    PROVE  Kept(a \o c, all, gone \cup {b[i] : i \in DOMAIN b})
<1>1. PICK s, t : s = (a \o b) \o c /\ t = a \o c
  OBVIOUS
<1>k. Kept(s, all, gone)
  BY <1>1
<1>2. PICK A, B, C : A = Len(a) /\ B = Len(b) /\ C = Len(c)
  OBVIOUS
<1>3. /\ A \in Nat /\ B \in Nat /\ C \in Nat
      /\ DOMAIN a = 1..A /\ DOMAIN b = 1..B /\ DOMAIN c = 1..C
  BY <1>2, LenProperties
<1>4. /\ a \o b \in Seq(Line) /\ Len(a \o b) = A + B
      /\ \A i \in 1..(A + B) : (a \o b)[i] = IF i <= A THEN a[i] ELSE b[i - A]
  BY <1>2, ConcatProperties
<1>5. /\ DOMAIN s = 1..(A + B + C)
      /\ \A i \in 1..(A + B + C) :
            s[i] = IF i <= A + B THEN (a \o b)[i] ELSE c[i - (A + B)]
  <2>1. /\ s \in Seq(Line) /\ Len(s) = A + B + C
        /\ \A i \in 1..(A + B + C) : s[i] = IF i <= A + B THEN (a \o b)[i] ELSE c[i - (A + B)]
    BY <1>1, <1>2, <1>4, ConcatProperties
  <2> QED
    BY <2>1, LenProperties
<1>6. /\ DOMAIN t = 1..(A + C)
      /\ \A i \in 1..(A + C) : t[i] = IF i <= A THEN a[i] ELSE c[i - A]
  <2>1. /\ t \in Seq(Line) /\ Len(t) = A + C
        /\ \A i \in 1..(A + C) : t[i] = IF i <= A THEN a[i] ELSE c[i - A]
    BY <1>1, <1>2, ConcatProperties
  <2> QED
    BY <2>1, LenProperties
<1>7. PICK g : g = [i \in 1..(A + C) |-> IF i <= A THEN i ELSE i + B]
  OBVIOUS
<1>8. \A i \in DOMAIN t : g[i] \in DOMAIN s /\ t[i] = s[g[i]] /\ (g[i] <= A \/ A + B < g[i])
  <2>1. SUFFICES ASSUME NEW i \in 1..(A + C)
                 PROVE  g[i] \in DOMAIN s /\ t[i] = s[g[i]] /\ (g[i] <= A \/ A + B < g[i])
    BY <1>6
  <2>2. CASE i <= A
    <3>1. g[i] = i /\ i \in 1..(A + B) /\ i \in 1..(A + B + C) /\ i <= A + B
      BY <1>3, <1>7, <2>2
    <3>2. s[i] = a[i] /\ t[i] = a[i]
      BY <1>4, <1>5, <1>6, <2>2, <3>1
    <3> QED
      BY <1>5, <2>2, <3>1, <3>2
  <2>3. CASE ~(i <= A)
    <3>1. g[i] = i + B /\ i + B \in 1..(A + B + C) /\ ~(i + B <= A + B) /\ (i + B) - (A + B) = i - A
      BY <1>3, <1>7, <2>3
    <3>2. s[i + B] = c[i - A] /\ t[i] = c[i - A]
      BY <1>5, <1>6, <2>3, <3>1
    <3> QED
      BY <1>3, <1>5, <3>1, <3>2
  <2> QED
    BY <2>2, <2>3
<1>9. \A i \in DOMAIN b : A + i \in DOMAIN s /\ b[i] = s[A + i]
  <2>1. SUFFICES ASSUME NEW i \in 1..B PROVE A + i \in DOMAIN s /\ b[i] = s[A + i]
    BY <1>3
  <2>2. A + i \in 1..(A + B) /\ A + i \in 1..(A + B + C) /\ A + i <= A + B /\ ~(A + i <= A)
        /\ (A + i) - A = i
    BY <1>3
  <2> QED
    BY <1>4, <1>5, <2>2
<1>10. \A i, j \in DOMAIN t : i < j => g[i] < g[j]
  BY <1>3, <1>6, <1>7
<1>i. \A p, q \in DOMAIN all : p # q => all[p] # all[q]
  BY DEF Kept
<1>11. \A i, j \in DOMAIN s : i < j => s[i] # s[j]
  <2>1. SUFFICES ASSUME NEW i \in DOMAIN s, NEW j \in DOMAIN s, i < j, s[i] = s[j] PROVE FALSE
    OBVIOUS
  <2>2. PICK p, q \in DOMAIN all : p < q /\ all[p] = s[i] /\ all[q] = s[j]
    BY <1>k, <2>1 DEF Kept
  <2>3. p # q
    BY <2>2, LenProperties
  <2> QED
    BY <1>i, <2>1, <2>2, <2>3
<1>12. \A i \in DOMAIN t : \A k \in DOMAIN b : t[i] # b[k]
  <2>1. SUFFICES ASSUME NEW i \in DOMAIN t, NEW k \in DOMAIN b, t[i] = b[k] PROVE FALSE
    OBVIOUS
  <2>2. g[i] \in DOMAIN s /\ A + k \in DOMAIN s /\ s[g[i]] = s[A + k]
    BY <1>8, <1>9, <2>1
  <2>3. g[i] \in Nat /\ k \in 1..B /\ (g[i] < A + k \/ A + k < g[i])
    BY <1>3, <1>5, <1>8, <2>2
  <2> QED
    BY <1>11, <2>2, <2>3
<1>13. {s[i] : i \in DOMAIN s} = {t[i] : i \in DOMAIN t} \cup {b[i] : i \in DOMAIN b}
  <2>1. ASSUME NEW i \in DOMAIN s
        PROVE  (\E j \in DOMAIN t : t[j] = s[i]) \/ (\E j \in DOMAIN b : b[j] = s[i])
    <3>0. i \in 1..(A + B + C)
      BY <1>5
    <3>1. CASE i <= A
      <4>1. i \in DOMAIN t /\ g[i] = i
        BY <1>3, <1>6, <1>7, <3>0, <3>1
      <4> QED
        BY <1>8, <4>1
    <3>2. CASE A < i /\ i <= A + B
      <4>1. i - A \in DOMAIN b /\ A + (i - A) = i
        BY <1>3, <3>0, <3>2
      <4> QED
        BY <1>9, <4>1
    <3>3. CASE A + B < i
      <4>1. i - B \in DOMAIN t /\ g[i - B] = i
        BY <1>3, <1>6, <1>7, <3>0, <3>3
      <4> QED
        BY <1>8, <4>1
    <3> QED
      BY <1>3, <3>0, <3>1, <3>2, <3>3
  <2> QED
    BY <1>8, <1>9, <2>1
<1>14. {t[i] : i \in DOMAIN t} =
          {all[p] : p \in DOMAIN all} \ (gone \cup {b[i] : i \in DOMAIN b})
  <2>1. {s[i] : i \in DOMAIN s} = {all[p] : p \in DOMAIN all} \ gone
    BY <1>k DEF Kept
  <2> QED
    BY <1>12, <1>13, <2>1
<1>15. ASSUME NEW i \in DOMAIN t, NEW j \in DOMAIN t, i < j
       PROVE  \E p, q \in DOMAIN all : p < q /\ all[p] = t[i] /\ all[q] = t[j]
  <2>1. g[i] \in DOMAIN s /\ g[j] \in DOMAIN s /\ g[i] < g[j] /\ t[i] = s[g[i]] /\ t[j] = s[g[j]]
    BY <1>8, <1>10, <1>15
  <2>2. PICK p, q \in DOMAIN all : p < q /\ all[p] = s[g[i]] /\ all[q] = s[g[j]]
    BY <1>k, <2>1 DEF Kept
  <2> QED
    BY <2>1, <2>2
<1>17. Kept(t, all, gone \cup {b[i] : i \in DOMAIN b})
  BY <1>i, <1>14, <1>15, Zenon DEF Kept
<1> QED
  BY <1>1, <1>17

-----------------------------------------------------------------------------
(* Events.                                                                 *)

\* Actor a changes its stack to s: events pass layers, and the innermost one
\* may be new.
StackStep(a, s) ==
    /\ s \in Seq(FrameType) /\ Len(s) <= StackDepth
    /\ stack' = [stack EXCEPT ![a] = s]
    /\ count' \in {count, count + 1}
    /\ \A i \in DOMAIN s :
          \/ /\ i \in DOMAIN stack[a]
             /\ s[i].line = stack[a][i].line
             /\ s[i].todo \subseteq stack[a][i].todo
          \/ /\ i = Len(s)
             /\ s[i].line = count + 1 /\ count' = count + 1
             /\ i > 1 => s[i].todo \subseteq {"access"}

\* A new event, and the layers that it visits.
LEMMA FrameOK ==
    ASSUME TypeOK, NEW kind \in {"request", "failure", "full", "ioerror"}
    PROVE  /\ Frame(kind) \in FrameType
           /\ Frame(kind).line = count + 1
           /\ Frame("full").todo \subseteq {"access"}
<1>1. Layers(kind) \subseteq Files /\ Layers("full") = {"access"}
  BY DEF Layers, Files
<1>2. count + 1 \in Line
  BY DEF TypeOK, StacksOK, Line, Shutdown
<1> QED
  BY <1>1, <1>2 DEF Frame, FrameType

\* The innermost event of a stack that is not empty.
LEMMA TopOK ==
    ASSUME TypeOK, NEW a \in Actors, stack[a] # <<>>
    PROVE  /\ Len(stack[a]) \in 1..StackDepth /\ DOMAIN stack[a] = 1..Len(stack[a])
           /\ Len(stack[a]) \in DOMAIN stack[a]
           /\ stack[a] \in Seq(FrameType)
           /\ Top(a) \in FrameType /\ Top(a) = stack[a][Len(stack[a])]
<1>1. stack[a] \in Seq(FrameType) /\ Len(stack[a]) <= StackDepth
  BY DEF TypeOK, StacksOK
<1>2. Len(stack[a]) \in Nat \ {0} /\ DOMAIN stack[a] = 1..Len(stack[a])
  BY <1>1, EmptySeq, LenProperties
<1>3. Len(stack[a]) \in 1..Len(stack[a])
  BY <1>2
<1>4. stack[a][Len(stack[a])] \in FrameType
  BY <1>1, <1>3, ElementOfSeq
<1> QED
  BY <1>1, <1>2, <1>3, <1>4 DEF Top

\* An event that is at a layer has it before it.
LEMMA AtLayerOK ==
    ASSUME TypeOK, NEW a \in Actors, NEW f \in Files, AtLayer(a, f)
    PROVE  /\ stack[a] # <<>> /\ f \in Top(a).todo /\ Up
           /\ f = "error" => "access" \notin Top(a).todo
<1>1. stack[a] # <<>> /\ Top(a).todo # {} /\ f = NextLayer(Top(a).todo) /\ Up
  BY DEF AtLayer
<1>2. Top(a).todo \subseteq Files
  BY <1>1, TopOK DEF FrameType
<1> QED
  BY <1>1, <1>2 DEF NextLayer, Files

\* An event that a layer is done with.
LEMMA PassedOK ==
    ASSUME TypeOK, NEW a \in Actors, NEW f, stack[a] # <<>>
    PROVE  /\ Passed(a, f) \in Seq(FrameType) /\ Len(Passed(a, f)) = Len(stack[a])
           /\ DOMAIN Passed(a, f) = DOMAIN stack[a]
           /\ \A i \in DOMAIN stack[a] :
                 /\ Passed(a, f)[i].line = stack[a][i].line
                 /\ Passed(a, f)[i].todo \subseteq stack[a][i].todo
           /\ f \notin Passed(a, f)[Len(stack[a])].todo
<1>1. PICK n, e : n = Len(stack[a]) /\ e = [line |-> Top(a).line, todo |-> Top(a).todo \ {f}]
  OBVIOUS
<1>2. n \in 1..Len(stack[a]) /\ DOMAIN stack[a] = 1..Len(stack[a]) /\ stack[a] \in Seq(FrameType)
      /\ Top(a) \in FrameType /\ Top(a) = stack[a][n]
  BY <1>1, TopOK
<1>3. e \in FrameType /\ e.line = Top(a).line /\ e.todo = Top(a).todo \ {f}
  BY <1>1, <1>2 DEF FrameType
<1>4. PICK s : s = [stack[a] EXCEPT ![n] = e]
  OBVIOUS
<1>5. /\ s \in Seq(FrameType) /\ Len(s) = Len(stack[a])
      /\ \A j \in 1..Len(stack[a]) : s[j] = IF j = n THEN e ELSE stack[a][j]
  BY <1>2, <1>3, <1>4, ExceptSeq
<1>6. DOMAIN s = DOMAIN stack[a]
  BY <1>4
<1>7. s = Passed(a, f)
  BY <1>1, <1>4 DEF Passed
<1> QED
  BY <1>1, <1>2, <1>3, <1>5, <1>6, <1>7

\* LogAccess, LogError and the event of a failed write start a stack.
LEMMA Starts ==
    ASSUME TypeOK, NEW a \in Actors, NEW kind \in {"request", "failure", "ioerror"},
           stack' = [stack EXCEPT ![a] = <<Frame(kind)>>], count' = count + 1
    PROVE  StackStep(a, <<Frame(kind)>>)
<1>1. PICK e : e = Frame(kind)
  OBVIOUS
<1>2. e \in FrameType /\ e.line = count + 1
  BY <1>1, FrameOK
<1>3. <<e>> \in Seq(FrameType) /\ Len(<<e>>) = 1 /\ DOMAIN <<e>> = {1} /\ <<e>>[1] = e
  BY <1>2
<1> QED
  BY <1>1, <1>2, <1>3 DEF StackStep

\* A layer that sends its line is passed.
LEMMA Sends ==
    ASSUME TypeOK, NEW a \in Actors, NEW f \in Files, Send(a, f)
    PROVE  StackStep(a, Passed(a, f))
<1>1. stack[a] # <<>> /\ Len(stack[a]) \in 1..StackDepth
  BY AtLayerOK, TopOK DEF Send
<1> QED
  BY <1>1, PassedOK DEF Send, StackStep

\* A layer that drops its line is passed, and reports that by an event of its own.
LEMMA Discards ==
    ASSUME TypeOK, NEW a \in Actors, NEW f \in Files, Discard(a, f)
    PROVE  StackStep(a, Append(Passed(a, f), Frame("full")))
<1>1. stack[a] # <<>> /\ Len(stack[a]) \in Nat /\ Len(stack[a]) < StackDepth
  BY AtLayerOK, TopOK DEF Discard
<1>2. PICK p, e : p = Passed(a, f) /\ e = Frame("full")
  OBVIOUS
<1>3. /\ p \in Seq(FrameType) /\ Len(p) = Len(stack[a]) /\ DOMAIN p = DOMAIN stack[a]
      /\ \A i \in DOMAIN stack[a] :
            p[i].line = stack[a][i].line /\ p[i].todo \subseteq stack[a][i].todo
  BY <1>1, <1>2, PassedOK
<1>4. e \in FrameType /\ e.line = count + 1 /\ e.todo \subseteq {"access"}
  BY <1>2, FrameOK
<1>5. PICK s : s = Append(p, e)
  OBVIOUS
<1>6. /\ s \in Seq(FrameType) /\ Len(s) = Len(p) + 1 /\ s[Len(p) + 1] = e
      /\ \A i \in 1..Len(p) : s[i] = p[i]
  BY <1>3, <1>4, <1>5, AppendProperties
<1>7. DOMAIN s = 1..(Len(p) + 1) /\ DOMAIN p = 1..Len(p) /\ Len(p) \in Nat
  BY <1>3, <1>6, LenProperties
<1>8. \A i \in DOMAIN s : i \in DOMAIN p \/ i = Len(p) + 1
  BY <1>7
<1>9. Len(s) <= StackDepth
  BY <1>1, <1>3, <1>6
<1>10. stack' = [stack EXCEPT ![a] = s] /\ count' = count + 1
  BY <1>2, <1>5 DEF Discard
<1>11. StackStep(a, s)
  BY <1>3, <1>4, <1>6, <1>7, <1>8, <1>9, <1>10 DEF StackStep
<1> QED
  BY <1>2, <1>5, <1>11

\* An event that all layers have seen.
LEMMA Returns ==
    ASSUME TypeOK, NEW a \in Actors, Return(a)
    PROVE  StackStep(a, SubSeq(stack[a], 1, Len(stack[a]) - 1))
<1>1. PICK n : n = Len(stack[a]) - 1
  OBVIOUS
<1>2. /\ n \in Nat /\ n < StackDepth /\ stack[a] \in Seq(FrameType)
      /\ DOMAIN stack[a] = 1..(n + 1) /\ Len(stack[a]) = n + 1
  BY <1>1, TopOK DEF Return
<1>3. PICK s : s = SubSeq(stack[a], 1, n)
  OBVIOUS
<1>4. \A i \in 1..n : stack[a][i] \in FrameType
  BY <1>2, ElementOfSeq
<1>5. /\ s \in Seq(FrameType) /\ Len(s) = n
      /\ \A i \in 1..n : s[i] = stack[a][i]
  <2>1. /\ s \in Seq(FrameType) /\ Len(s) = (IF 1 <= n THEN n - 1 + 1 ELSE 0)
        /\ \A i \in 1..(n - 1 + 1) : s[i] = stack[a][1 + i - 1]
    BY <1>2, <1>3, <1>4, SubSeqProperties
  <2> QED
    BY <1>2, <2>1
<1>6. DOMAIN s = 1..n /\ \A i \in 1..n : i \in DOMAIN stack[a]
  BY <1>2, <1>5, LenProperties
<1>7. stack' = [stack EXCEPT ![a] = s] /\ count' = count
  BY <1>1, <1>3 DEF Return
<1>8. StackStep(a, s)
  BY <1>2, <1>5, <1>6, <1>7 DEF StackStep
<1> QED
  BY <1>1, <1>3, <1>8

\* Every frame after a step of a stack is one of before, further on, or the
\* one that is new.
LEMMA StackSteps ==
    ASSUME TypeOK, NEW a \in Actors, NEW s, StackStep(a, s)
    PROVE  /\ StacksOK'
           /\ stack'[a] = s /\ \A b \in Actors : b # a => stack'[b] = stack[b]
           /\ Nested => Nested'
           /\ Numbered => Numbered'
<1>0. stack \in [Actors -> Seq(FrameType)] /\ count \in Nat /\ count' \in Nat /\ count' >= count
  BY DEF TypeOK, StacksOK, StackStep
<1>1. stack'[a] = s /\ \A b \in Actors : b # a => stack'[b] = stack[b]
  BY <1>0 DEF StackStep
<1>2. StacksOK'
  BY <1>0, <1>1 DEF TypeOK, StacksOK, StackStep
<1>3. ASSUME Nested PROVE Nested'
  BY <1>1, <1>3 DEF Nested, StackStep
<1>l. \A b \in Actors : \A i \in DOMAIN stack[b] : stack[b][i].line \in Nat
  <2>1. SUFFICES ASSUME NEW b \in Actors, NEW i \in DOMAIN stack[b] PROVE stack[b][i].line \in Nat
    OBVIOUS
  <2>2. stack[b][i] \in FrameType
    BY <1>0, LenProperties, ElementOfSeq
  <2> QED
    BY <2>2 DEF FrameType, Line
<1>4. ASSUME Numbered PROVE Numbered'
  <2>1. ASSUME NEW b \in Actors, NEW i \in DOMAIN stack'[b]
        PROVE  /\ stack'[b][i].line <= count'
               /\ \/ i \in DOMAIN stack[b] /\ stack'[b][i].line = stack[b][i].line
                  \/ b = a /\ i = Len(s) /\ stack'[b][i].line = count + 1
    BY <1>0, <1>1, <1>4, <1>l DEF StackStep, Numbered
  <2>2. ASSUME NEW b \in Actors, NEW c \in Actors, NEW i \in DOMAIN stack'[b], NEW j \in DOMAIN stack'[c],
               stack'[b][i].line = stack'[c][j].line
        PROVE  b = c /\ i = j
    <3>1. \A d \in Actors : \A k \in DOMAIN stack[d] :
             stack[d][k].line <= count /\ stack[d][k].line # count + 1
      BY <1>0, <1>4, <1>l DEF Numbered
    <3>2. \A d, e \in Actors : \A k \in DOMAIN stack[d], m \in DOMAIN stack[e] :
             stack[d][k].line = stack[e][m].line => d = e /\ k = m
      BY <1>4 DEF Numbered
    <3> QED
      BY <2>1, <2>2, <3>1, <3>2
  <2> QED
    BY <2>1, <2>2 DEF Numbered
<1> QED
  BY <1>1, <1>2, <1>3, <1>4

-----------------------------------------------------------------------------
(* Types, and the quiet phases.                                            *)

\* The first state.
LEMMA InitShape == Init => TypeOK /\ Quiet
<1>1. SUFFICES ASSUME Init PROVE TypeOK /\ Quiet
  OBVIOUS
<1>2. \A S : <<>> \in Seq(S) /\ Len(<<>>) = 0
  BY EmptySeq
<1>3. StartOK /\ ChannelsOK /\ WritersOK
  BY <1>1, <1>2 DEF Init, StartOK, ChannelsOK, WritersOK
<1>4. StacksOK
  BY <1>1, <1>2 DEF Init, StacksOK
<1>5. Quiet
  BY <1>1, <1>2 DEF Init, Quiet, Up
<1> QED
  BY <1>3, <1>4, <1>5 DEF TypeOK

\* The writer's part of the state is left alone.
LEMMA WritersStay ==
    ASSUME TypeOK, UNCHANGED <<writer, late, buf, file, accepted, lost, faults>>
    PROVE  WritersOK'
BY DEF TypeOK, WritersOK

\* An event passes a layer or ends, while a subscriber is set: nothing else
\* can be but the channel and what is known of it.
LEMMA EventShape ==
    ASSUME TypeOK, Quiet, NEW a \in Actors, EventStep(a)
    PROVE  TypeOK' /\ Quiet'
<1>1. CASE Return(a)
  <2>1. StacksOK'
    BY <1>1, Returns, StackSteps
  <2>2. Up /\ StartOK' /\ ChannelsOK' /\ WritersOK' /\ phase' = phase
    BY <1>1, WritersStay DEF Return, startVars, TypeOK, StartOK, ChannelsOK
  <2>3. Quiet'
    BY <1>1, <2>2 DEF Return, startVars, Quiet, Up
  <2> QED
    BY <2>1, <2>2, <2>3 DEF TypeOK
<1>2. ASSUME NEW f \in Files, Send(a, f)
      PROVE  TypeOK' /\ Quiet'
  <2>1. StacksOK'
    BY <1>2, Sends, StackSteps
  <2>2. PICK x : x = Top(a).line
    OBVIOUS
  <2>3. x \in Line /\ x \in Nat
    BY <1>2, <2>2, AtLayerOK, TopOK DEF Send, FrameType, Line
  <2>4. Up /\ phase' = phase /\ StartOK'
    BY <1>2, AtLayerOK DEF Send, startVars, TypeOK, StartOK
  <2>5. /\ chan' = [chan EXCEPT ![f] = Append(chan[f], x)]
        /\ accepted' = [accepted EXCEPT ![f] = Append(accepted[f], x)]
        /\ Len(chan[f]) < Capacity
    BY <1>2, <2>2 DEF Send, HasRoom
  <2>6. chan[f] \in Seq(Line) /\ \A g \in Files : chan[g] \in Seq(Line)
    BY <2>4 DEF Quiet
  <2>7. /\ Append(chan[f], x) \in Seq(Line) /\ Append(chan[f], x) \in Seq(Nat)
        /\ Len(Append(chan[f], x)) = Len(chan[f]) + 1 /\ Len(chan[f]) \in Nat
    <3>1. chan[f] \in Seq(Nat)
      BY DEF TypeOK, ChannelsOK
    <3> QED
      BY <2>3, <2>6, <3>1, AppendProperties, LenProperties
  <2>8. ChannelsOK'
    BY <2>5, <2>7 DEF TypeOK, ChannelsOK
  <2>9. WritersOK'
    <3>1. accepted[f] \in Seq(Line)
      BY DEF TypeOK, WritersOK
    <3>2. Append(accepted[f], x) \in Seq(Line)
      BY <2>3, <3>1, AppendProperties
    <3> QED
      BY <1>2, <2>5, <3>2 DEF Send, TypeOK, WritersOK
  <2>10. \A g \in Files : chan'[g] \in Seq(Line)
    BY <2>5, <2>6, <2>7 DEF TypeOK, ChannelsOK
  <2>11. Quiet'
    BY <2>4, <2>10 DEF Quiet, Up
  <2> QED
    BY <2>1, <2>4, <2>8, <2>9, <2>11 DEF TypeOK
<1>3. ASSUME NEW f \in Files, Discard(a, f)
      PROVE  TypeOK' /\ Quiet'
  <2>1. StacksOK'
    BY <1>3, Discards, StackSteps
  <2>2. Up /\ StartOK' /\ ChannelsOK' /\ WritersOK' /\ phase' = phase
    BY <1>3, AtLayerOK, WritersStay DEF Discard, startVars, TypeOK, StartOK, ChannelsOK
  <2>3. Quiet'
    BY <1>3, <2>2 DEF Discard, startVars, Quiet, Up
  <2> QED
    BY <2>1, <2>2, <2>3 DEF TypeOK
<1>4. ASSUME NEW f \in Files, Overflow(a, f)
      PROVE  TypeOK' /\ Quiet'
  <2>1. Up /\ StartOK' /\ ChannelsOK' /\ WritersOK' /\ StacksOK' /\ phase' = "aborted"
    BY <1>4, AtLayerOK, WritersStay DEF Overflow, TypeOK, StartOK, ChannelsOK, StacksOK
  <2>2. Quiet'
    BY <1>4, <2>1 DEF Overflow, Quiet, Up
  <2> QED
    BY <2>1, <2>2 DEF TypeOK
<1> QED
  BY <1>1, <1>2, <1>3, <1>4 DEF EventStep

\* The steps of a writer thread.
LEMMA WriterShape ==
    ASSUME TypeOK, Quiet, NEW f \in Files, WriterStep(f)
    PROVE  TypeOK' /\ Quiet'
<1>0. /\ chan[f] \in Seq(Nat) /\ buf[f] \in Seq(Line) /\ file[f] \in Seq(Line)
      /\ Len(chan[f]) <= Capacity
  BY DEF TypeOK, ChannelsOK, WritersOK
<1>1. CASE Receive(f)
  <2>1. chan[f] # <<>> /\ Head(chan[f]) # Shutdown
    BY <1>1 DEF Receive
  <2>2. chan[f] \in Seq(Line)
    <3>1. Head(<<Shutdown>>) = Shutdown
      OBVIOUS
    <3> QED
      BY <2>1, <3>1 DEF Quiet
  <2>3. /\ Head(chan[f]) \in Line /\ Tail(chan[f]) \in Seq(Line) /\ Tail(chan[f]) \in Seq(Nat)
        /\ Len(Tail(chan[f])) = Len(chan[f]) - 1 /\ Len(chan[f]) \in Nat
    BY <1>0, <2>1, <2>2, HeadTailProperties, LenProperties
  <2>4. chan' = [chan EXCEPT ![f] = Tail(chan[f])]
        /\ buf' = [buf EXCEPT ![f] = Append(buf[f], Head(chan[f]))]
    BY <1>1 DEF Receive
  <2>5. Append(buf[f], Head(chan[f])) \in Seq(Line)
    BY <1>0, <2>3, AppendProperties
  <2>6. ChannelsOK'
    BY <1>0, <2>3, <2>4 DEF TypeOK, ChannelsOK
  <2>7. WritersOK'
    BY <1>1, <2>4, <2>5 DEF Receive, TypeOK, WritersOK
  <2>8. StartOK' /\ StacksOK' /\ phase' = phase
    BY <1>1 DEF Receive, startVars, TypeOK, StartOK, StacksOK
  <2>9. phase \notin {"init", "silent"}
    <3>1. chan[f] # <<Shutdown>>
      <4>1. Head(<<Shutdown>>) = Shutdown
        OBVIOUS
      <4> QED
        BY <2>1, <4>1
    <3> QED
      BY <2>1, <3>1 DEF Quiet
  <2>10. \A g \in Files : chan'[g] = chan[g] \/ chan'[g] \in Seq(Line)
    BY <2>3, <2>4 DEF TypeOK, ChannelsOK
  <2>11. Quiet'
    BY <2>8, <2>9, <2>10 DEF Quiet, Up
  <2> QED
    BY <2>6, <2>7, <2>8, <2>11 DEF TypeOK
<1>2. CASE WriteAll(f)
  <2>1. writer[f] = "write" /\ phase \notin {"init", "silent"}
    BY <1>2 DEF WriteAll, Quiet
  <2>2. file[f] \o buf[f] \in Seq(Line) /\ <<>> \in Seq(Line)
    BY <1>0, ConcatProperties, EmptySeq
  <2>3. WritersOK'
    BY <1>2, <2>2 DEF WriteAll, TypeOK, WritersOK
  <2>4. StartOK' /\ StacksOK' /\ ChannelsOK' /\ phase' = phase /\ chan' = chan
    BY <1>2 DEF WriteAll, startVars, TypeOK, StartOK, StacksOK, ChannelsOK
  <2>5. Quiet'
    BY <2>1, <2>4 DEF Quiet, Up
  <2> QED
    BY <2>3, <2>4, <2>5 DEF TypeOK
<1>3. CASE WriteFails(f)
  <2>1. writer[f] = "write" /\ phase \notin {"init", "silent"}
    BY <1>3 DEF WriteFails, Quiet
  <2>2. PICK k \in 0..(Len(buf[f]) - 1) :
          /\ file' = [file EXCEPT ![f] = @ \o SubSeq(buf[f], 1, k)]
          /\ lost' = [lost EXCEPT ![f] = @ \cup {buf[f][i] : i \in (k + 1)..Len(buf[f])}]
    BY <1>3 DEF WriteFails
  <2>3. k \in Nat /\ Len(buf[f]) \in Nat /\ \A i \in 1..Len(buf[f]) : buf[f][i] \in Line
    BY <1>0, <2>2, LenProperties, ElementOfSeq
  <2>4. \A i \in 1..k : buf[f][i] \in Line
    BY <2>2, <2>3
  <2>5. SubSeq(buf[f], 1, k) \in Seq(Line)
    BY <2>3, <2>4, SubSeqProperties
  <2>6. file[f] \o SubSeq(buf[f], 1, k) \in Seq(Line) /\ <<>> \in Seq(Line)
    BY <1>0, <2>5, ConcatProperties, EmptySeq
  <2>7. {buf[f][i] : i \in (k + 1)..Len(buf[f])} \subseteq Line
    BY <2>2, <2>3
  <2>8. WritersOK'
    BY <1>3, <2>2, <2>6, <2>7 DEF WriteFails, TypeOK, WritersOK
  <2>9. StacksOK'
    <3>1. f \in Actors /\ stack' = [stack EXCEPT ![f] = <<Frame("ioerror")>>] /\ count' = count + 1
      BY <1>3 DEF WriteFails, Actors
    <3>2. StackStep(f, <<Frame("ioerror")>>)
      BY <3>1, Starts
    <3> QED
      BY <3>1, <3>2, StackSteps
  <2>10. StartOK' /\ ChannelsOK' /\ phase' = phase /\ chan' = chan
    BY <1>3 DEF WriteFails, startVars, TypeOK, StartOK, ChannelsOK
  <2>11. Quiet'
    BY <2>1, <2>10 DEF Quiet, Up
  <2> QED
    BY <2>8, <2>9, <2>10, <2>11 DEF TypeOK
<1>4. CASE ReceiveShutdown(f)
  <2>1. chan[f] # <<>> /\ Head(chan[f]) = Shutdown
    BY <1>4 DEF ReceiveShutdown
  <2>2. chan[f] = <<Shutdown>> /\ ~Up
    <3>1. chan[f] \notin Seq(Line)
      <4>1. chan[f] \in Seq(Line) => Head(chan[f]) \in Line
        BY <2>1, HeadTailProperties
      <4> QED
        BY <2>1, <4>1 DEF Line
    <3> QED
      BY <3>1 DEF Quiet
  <2>3. Tail(chan[f]) = <<>>
    BY <2>2
  <2>4. chan' = [chan EXCEPT ![f] = <<>>]
    BY <1>4, <2>3 DEF ReceiveShutdown
  <2>5. \A S : <<>> \in Seq(S) /\ Len(<<>>) = 0
    BY EmptySeq
  <2>6. ChannelsOK'
    BY <2>4, <2>5 DEF TypeOK, ChannelsOK
  <2>7. file[f] \o buf[f] \in Seq(Line)
    BY <1>0, ConcatProperties
  <2>8. WritersOK'
    BY <1>4, <2>5, <2>7 DEF ReceiveShutdown, TypeOK, WritersOK
  <2>9. StartOK' /\ StacksOK' /\ phase' = phase /\ stack' = stack /\ accepted' = accepted
    BY <1>4 DEF ReceiveShutdown, startVars, TypeOK, StartOK, StacksOK
  <2>10. \A g \in Files : chan'[g] = chan[g] \/ chan'[g] = <<>>
    BY <2>4 DEF TypeOK, ChannelsOK
  <2>11. phase \in {"init", "silent"} => file[f] \o buf[f] = <<>>
    <3>1. SUFFICES ASSUME phase \in {"init", "silent"} PROVE file[f] \o buf[f] = <<>>
      OBVIOUS
    <3>2. file[f] = <<>> /\ buf[f] = <<>>
      BY <3>1 DEF Quiet
    <3> QED
      BY <3>2, <2>5, ConcatEmptySeq
  <2>12. \A g \in Files : /\ file'[g] = IF g = f THEN file[f] \o buf[f] ELSE file[g]
                          /\ buf'[g] = IF g = f THEN <<>> ELSE buf[g]
                          /\ writer'[g] = IF g = f THEN "ended" ELSE writer[g]
    BY <1>4 DEF ReceiveShutdown, TypeOK, WritersOK
  <2>13. Quiet'
    BY <2>5, <2>9, <2>10, <2>11, <2>12 DEF Quiet, Up
  <2> QED
    BY <2>6, <2>8, <2>9, <2>13 DEF TypeOK
<1> QED
  BY <1>1, <1>2, <1>3, <1>4 DEF WriterStep

\* Every step.
LEMMA NextShape == TypeOK /\ Quiet /\ [Next]_vars => TypeOK' /\ Quiet'
<1>0. SUFFICES ASSUME TypeOK, Quiet, [Next]_vars PROVE TypeOK' /\ Quiet'
  OBVIOUS
<1>e. \A S : <<>> \in Seq(S) /\ Len(<<>>) = 0
  BY EmptySeq
<1>1. ASSUME NEW f \in Files, NewWriter(f) PROVE TypeOK' /\ Quiet'
  <2>1. phase = "init" /\ phase' = phase /\ f \in enabled
    BY <1>1 DEF NewWriter, NextToOpen
  <2>2. StartOK' /\ StacksOK' /\ ChannelsOK'
    BY <1>0, <1>1, <2>1 DEF NewWriter, TypeOK, StartOK, StacksOK, ChannelsOK
  <2>3. WritersOK'
    BY <1>0, <1>1, <1>e DEF NewWriter, TypeOK, WritersOK
  <2>4. \A g \in Files : file'[g] = file[g] \/ file'[g] = <<>>
    BY <1>0, <1>1 DEF NewWriter, TypeOK, WritersOK
  <2>5. Quiet'
    BY <1>0, <1>1, <2>1, <2>4 DEF NewWriter, Quiet, Up
  <2> QED
    BY <2>2, <2>3, <2>5 DEF TypeOK
<1>2. ASSUME NEW f \in Files, NewWriterFails(f) PROVE TypeOK' /\ Quiet'
  <2>1. phase = "init" /\ phase' = "silent"
    BY <1>2 DEF NewWriterFails, NextToOpen
  <2>2. \A g \in Files : chan[g] = <<>>
    BY <1>0, <2>1 DEF Quiet
  <2>3. Append(<<>>, Shutdown) = <<Shutdown>>
    OBVIOUS
  <2>4. \A g \in Files : chan'[g] \in {<<>>, <<Shutdown>>}
    BY <1>2, <2>2, <2>3 DEF NewWriterFails
  <2>5. <<Shutdown>> \in Seq(Nat) /\ Len(<<Shutdown>>) = 1
    BY DEF Shutdown
  <2>6. ChannelsOK'
    <3>0. PICK c, d : c = <<>> /\ d = <<Shutdown>>
      OBVIOUS
    <3>1. c \in Seq(Nat) /\ Len(c) = 0 /\ d \in Seq(Nat) /\ Len(d) = 1
      BY <1>e, <2>5, <3>0
    <3>2. chan' = [g \in Files |-> chan'[g]]
      BY <1>2 DEF NewWriterFails
    <3>3. \A g \in Files : chan'[g] = c \/ chan'[g] = d
      BY <2>4, <3>0, Zenon
    <3>4. 0 <= Capacity /\ 1 <= Capacity
      OBVIOUS
    <3>5. \A g \in Files : chan'[g] \in Seq(Nat) /\ Len(chan'[g]) <= Capacity
      BY <3>1, <3>3, <3>4
    <3> QED
      BY <3>2, <3>5 DEF ChannelsOK
  <2>7. StartOK' /\ StacksOK' /\ WritersOK'
    BY <1>0, <1>2, <2>1 DEF NewWriterFails, TypeOK, StartOK, StacksOK, WritersOK
  <2>8. UNCHANGED <<stack, writer, buf, file, accepted>>
    BY <1>2 DEF NewWriterFails
  <2>9. Quiet'
    BY <1>0, <1>e, <2>1, <2>4, <2>8 DEF Quiet, Up
  <2> QED
    BY <2>6, <2>7, <2>9 DEF TypeOK
<1>3. CASE Started
  <2>1. StartOK' /\ StacksOK' /\ ChannelsOK' /\ WritersOK'
    BY <1>0, <1>3 DEF Started, TypeOK, StartOK, StacksOK, ChannelsOK, WritersOK
  <2>2. phase = "init" /\ phase' = "up" /\ chan' = chan
    BY <1>3 DEF Started
  <2>3. Quiet'
    BY <1>0, <1>e, <2>2 DEF Quiet, Up
  <2> QED
    BY <2>1, <2>3 DEF TypeOK
<1>4. CASE RunForever
  <2>1. StartOK' /\ ChannelsOK' /\ WritersOK'
    BY <1>0, <1>4 DEF RunForever, TypeOK, StartOK, ChannelsOK, WritersOK
  <2>2. StacksOK'
    BY <1>0, <1>4, <1>e DEF RunForever, TypeOK, StacksOK
  <2>3. phase = "up" /\ phase' = "serving" /\ chan' = chan
    BY <1>4 DEF RunForever
  <2>4. Quiet'
    BY <1>0, <2>3 DEF Quiet, Up
  <2> QED
    BY <2>1, <2>2, <2>4 DEF TypeOK
<1>5. ASSUME NEW f \in Files, Tick(f) PROVE TypeOK' /\ Quiet'
  <2>1. StartOK' /\ StacksOK' /\ ChannelsOK' /\ WritersOK'
    BY <1>0, <1>5 DEF Tick, startVars, TypeOK, StartOK, StacksOK, ChannelsOK, WritersOK
  <2>2. Quiet'
    BY <1>0, <1>5 DEF Tick, startVars, Quiet, Up
  <2> QED
    BY <2>1, <2>2 DEF TypeOK
<1>6. ASSUME NEW t \in Threads, NEW kind \in {"request", "failure"}, Emit(t, kind)
      PROVE  TypeOK' /\ Quiet'
  <2>1. t \in Actors /\ Up /\ phase' = phase /\ chan' = chan
    BY <1>6 DEF Emit, startVars, Actors
  <2>2. StackStep(t, <<Frame(kind)>>)
    BY <1>0, <1>6, <2>1, Starts DEF Emit
  <2>3. StacksOK'
    BY <1>0, <2>1, <2>2, StackSteps
  <2>4. StartOK' /\ ChannelsOK' /\ WritersOK'
    BY <1>0, <1>6 DEF Emit, startVars, TypeOK, StartOK, ChannelsOK, WritersOK
  <2>5. Quiet'
    BY <1>0, <2>1 DEF Quiet, Up
  <2> QED
    BY <2>3, <2>4, <2>5 DEF TypeOK
<1>7. CASE Exit
  <2>1. StartOK' /\ StacksOK' /\ ChannelsOK' /\ WritersOK'
    BY <1>0, <1>7 DEF Exit, TypeOK, StartOK, StacksOK, ChannelsOK, WritersOK
  <2>2. Quiet'
    BY <1>0, <1>7 DEF Exit, Quiet, Up
  <2> QED
    BY <2>1, <2>2 DEF TypeOK
<1>8. ASSUME NEW f \in Files, SecondRun(f) PROVE TypeOK' /\ Quiet'
  <2>1. phase = "serving" /\ phase' = phase /\ chan' = chan
    BY <1>8 DEF SecondRun, startVars
  <2>2. {file[f][i] : i \in 1..Len(file[f])} \subseteq Line
    <3>1. file[f] \in Seq(Line)
      BY <1>0 DEF TypeOK, WritersOK
    <3> QED
      BY <3>1, ElementOfSeq
  <2>3. WritersOK'
    BY <1>0, <1>8, <1>e, <2>2 DEF SecondRun, TypeOK, WritersOK
  <2>4. StartOK' /\ StacksOK' /\ ChannelsOK'
    BY <1>0, <1>8 DEF SecondRun, startVars, TypeOK, StartOK, StacksOK, ChannelsOK
  <2>5. Quiet'
    BY <1>0, <2>1 DEF Quiet, Up
  <2> QED
    BY <2>3, <2>4, <2>5 DEF TypeOK
<1>9. CASE UNCHANGED vars
  <2>1. StartOK' /\ StacksOK' /\ ChannelsOK' /\ WritersOK'
    BY <1>0, <1>9 DEF vars, TypeOK, StartOK, StacksOK, ChannelsOK, WritersOK
  <2>2. Quiet'
    BY <1>0, <1>9 DEF vars, Quiet, Up
  <2> QED
    BY <2>1, <2>2 DEF TypeOK
<1>10. ASSUME NEW t \in Threads, LogAccess(t) \/ LogError(t) PROVE TypeOK' /\ Quiet'
  BY <1>6, <1>10 DEF LogAccess, LogError
<1> QED
  BY <1>0, <1>1, <1>2, <1>3, <1>4, <1>5, <1>7, <1>8, <1>9, <1>10, EventShape, WriterShape DEF Next

-----------------------------------------------------------------------------
(* The numbers of events.                                                  *)

\* The first state.
LEMMA InitNumbers == Init => Nested /\ Numbered /\ Unsent
<1>1. SUFFICES ASSUME Init PROVE Nested /\ Numbered /\ Unsent
  OBVIOUS
<1>2. DOMAIN <<>> = {}
  OBVIOUS
<1>3. \A a \in Actors : DOMAIN stack[a] = {}
  BY <1>1, <1>2 DEF Init
<1>4. \A f \in Files : DOMAIN accepted[f] = {} /\ lost[f] = {}
  BY <1>1, <1>2 DEF Init
<1> QED
  BY <1>3, <1>4 DEF Nested, Numbered, Unsent

\* What an actor has still to send after a step it had to send before, or it
\* is new.
LEMMA StillUnsent ==
    ASSUME TypeOK, Unsent, NEW a \in Actors, NEW s, StackStep(a, s),
           accepted' = accepted,
           \A f \in Files : lost'[f] \subseteq lost[f] \cup {accepted[f][p] : p \in DOMAIN accepted[f]}
    PROVE  Unsent'
<1>1. /\ stack'[a] = s /\ \A b \in Actors : b # a => stack'[b] = stack[b]
      /\ count \in Nat /\ count' \in Nat /\ count' >= count
  BY StackSteps DEF TypeOK, StacksOK, StackStep
<1>2. \A f \in Files : \A p \in DOMAIN accepted[f] : accepted[f][p] \in Nat /\ accepted[f][p] <= count
  <2>1. SUFFICES ASSUME NEW f \in Files, NEW p \in DOMAIN accepted[f]
                 PROVE  accepted[f][p] \in Nat /\ accepted[f][p] <= count
    OBVIOUS
  <2>2. accepted[f] \in Seq(Line)
    BY DEF TypeOK, WritersOK
  <2>3. accepted[f][p] \in Line
    BY <2>2, LenProperties, ElementOfSeq
  <2> QED
    BY <2>3 DEF Unsent, Line
<1>3. ASSUME NEW f \in Files, NEW p \in DOMAIN accepted[f], NEW b \in Actors, NEW i \in DOMAIN stack'[b],
             f \in stack'[b][i].todo
      PROVE  stack'[b][i].line # accepted[f][p]
  <2>1. CASE i \in DOMAIN stack[b] /\ stack'[b][i].line = stack[b][i].line /\ f \in stack[b][i].todo
    BY <1>3, <2>1 DEF Unsent
  <2>2. CASE stack'[b][i].line = count + 1
    BY <1>1, <1>2, <1>3, <2>2
  <2> QED
    BY <1>1, <1>3, <2>1, <2>2 DEF StackStep
<1> QED
  BY <1>1, <1>2, <1>3 DEF Unsent

\* A step that leaves the events alone and accepts nothing.
LEMMA NumbersStay ==
    ASSUME Nested, Numbered, Unsent, UNCHANGED <<stack, count, accepted>>,
           \A f \in Files : lost'[f] \subseteq lost[f] \cup {accepted[f][p] : p \in DOMAIN accepted[f]}
    PROVE  Nested' /\ Numbered' /\ Unsent'
BY DEF Nested, Numbered, Unsent

\* Send: the line of the innermost event is accepted, and that event has
\* passed the layer; every other event has another number.
LEMMA SentOnce ==
    ASSUME TypeOK, Numbered, Unsent, NEW a \in Actors, NEW f \in Files, Send(a, f)
    PROVE  Unsent'
<1>1. PICK n, x, L : n = Len(stack[a]) /\ x = Top(a).line /\ L = Len(accepted[f])
  OBVIOUS
<1>2. stack[a] # <<>> /\ n \in DOMAIN stack[a] /\ x = stack[a][n].line /\ x \in Line
  BY <1>1, AtLayerOK, TopOK DEF Send, FrameType
<1>3. accepted[f] \in Seq(Line)
  BY DEF TypeOK, WritersOK
<1>4. PICK m : m = Append(accepted[f], x)
  OBVIOUS
<1>5. /\ L \in Nat /\ DOMAIN accepted[f] = 1..L /\ DOMAIN m = 1..(L + 1)
      /\ m[L + 1] = x /\ \A p \in 1..L : m[p] = accepted[f][p]
  <2>1. /\ m \in Seq(Line) /\ Len(m) = L + 1 /\ m[L + 1] = x
        /\ \A p \in 1..L : m[p] = accepted[f][p]
    BY <1>1, <1>2, <1>3, <1>4, AppendProperties
  <2> QED
    BY <1>1, <1>3, <2>1, LenProperties
<1>6. accepted'[f] = m /\ \A g \in Files : g # f => accepted'[g] = accepted[g]
  BY <1>1, <1>4 DEF Send, TypeOK, WritersOK
<1>7. lost' = lost /\ count' = count
  BY DEF Send
<1>8. \A g \in Files : {accepted[g][p] : p \in DOMAIN accepted[g]}
                          \subseteq {accepted'[g][p] : p \in DOMAIN accepted'[g]}
  BY <1>5, <1>6
<1>9. \A g \in Files : \A p \in DOMAIN accepted'[g] :
         \/ p \in DOMAIN accepted[g] /\ accepted'[g][p] = accepted[g][p]
         \/ g = f /\ accepted'[g][p] = x
  BY <1>5, <1>6
<1>10. \A b \in Actors : \A i \in DOMAIN stack'[b] :
          /\ i \in DOMAIN stack[b]
          /\ stack'[b][i].line = stack[b][i].line
          /\ stack'[b][i].todo \subseteq stack[b][i].todo
          /\ b = a /\ i = n => f \notin stack'[b][i].todo
  <2>1. stack'[a] = Passed(a, f) /\ \A b \in Actors : b # a => stack'[b] = stack[b]
    BY Sends, StackSteps
  <2> QED
    BY <1>1, <1>2, <2>1, PassedOK
<1>11. x <= count
  BY <1>2 DEF Numbered
<1>12. ASSUME NEW g \in Files, NEW p \in DOMAIN accepted'[g]
       PROVE  /\ accepted'[g][p] <= count
              /\ \A b \in Actors : \A i \in DOMAIN stack'[b] :
                    g \in stack'[b][i].todo => stack'[b][i].line # accepted'[g][p]
  <2>1. CASE p \in DOMAIN accepted[g] /\ accepted'[g][p] = accepted[g][p]
    BY <1>10, <2>1 DEF Unsent
  <2>2. CASE g = f /\ accepted'[g][p] = x
    <3>1. ASSUME NEW b \in Actors, NEW i \in DOMAIN stack'[b], f \in stack'[b][i].todo,
                 stack'[b][i].line = x
          PROVE  FALSE
      <4>1. i \in DOMAIN stack[b] /\ stack[b][i].line = stack[a][n].line
        BY <1>2, <1>10, <3>1
      <4>2. b = a /\ i = n
        BY <1>2, <4>1 DEF Numbered
      <4> QED
        BY <1>10, <3>1, <4>2
    <3> QED
      BY <1>11, <2>2, <3>1
  <2> QED
    BY <1>9, <1>12, <2>1, <2>2
<1>13. \A g \in Files : lost'[g] \subseteq {accepted'[g][p] : p \in DOMAIN accepted'[g]}
  BY <1>7, <1>8 DEF Unsent
<1> QED
  BY <1>7, <1>12, <1>13 DEF Unsent

\* The lines in a channel are lines.
LEMMA WaitingOK ==
    ASSUME TypeOK, Quiet, NEW f \in Files
    PROVE  /\ Waiting(f) \in Seq(Line)
           /\ chan[f] \in Seq(Line) => Waiting(f) = chan[f]
<1>1. chan[f] \in Seq(Line) => chan[f] # <<Shutdown>>
  <2>1. SUFFICES ASSUME chan[f] \in Seq(Line), chan[f] = <<Shutdown>> PROVE FALSE
    OBVIOUS
  <2>2. Head(chan[f]) = Shutdown /\ chan[f] # <<>>
    BY <2>1
  <2>3. Head(chan[f]) \in Line
    BY <2>1, <2>2, HeadTailProperties
  <2> QED
    BY <2>2, <2>3 DEF Line
<1>2. <<>> \in Seq(Line)
  BY EmptySeq
<1> QED
  BY <1>1, <1>2 DEF Quiet, Waiting

\* What a buffer or a file holds was accepted.
LEMMA HeldAccepted ==
    ASSUME TypeOK, Quiet, LogAccounted, NEW f \in Files
    PROVE  /\ \A i \in 1..Len(buf[f]) : buf[f][i] \in {accepted[f][p] : p \in DOMAIN accepted[f]}
           /\ \A j \in 1..Len(file[f]) : file[f][j] \in {accepted[f][p] : p \in DOMAIN accepted[f]}
<1>1. PICK a, b, c : a = file[f] /\ b = buf[f] /\ c = Waiting(f)
  OBVIOUS
<1>2. a \in Seq(Line) /\ b \in Seq(Line) /\ c \in Seq(Line)
  BY <1>1, WaitingOK DEF TypeOK, WritersOK
<1>3. PICK A, B, C : A = Len(a) /\ B = Len(b) /\ C = Len(c)
  OBVIOUS
<1>4. A \in Nat /\ B \in Nat /\ C \in Nat
  BY <1>2, <1>3, LenProperties
<1>5. PICK s, t : t = a \o b /\ s = t \o c
  OBVIOUS
<1>6. /\ t \in Seq(Line) /\ Len(t) = A + B
      /\ \A i \in 1..(A + B) : t[i] = IF i <= A THEN a[i] ELSE b[i - A]
  BY <1>2, <1>3, <1>5, ConcatProperties
<1>7. /\ s \in Seq(Line) /\ Len(s) = A + B + C
      /\ \A i \in 1..(A + B + C) : s[i] = IF i <= A + B THEN t[i] ELSE c[i - (A + B)]
  BY <1>2, <1>3, <1>5, <1>6, ConcatProperties
<1>8. DOMAIN s = 1..(A + B + C)
  BY <1>7, LenProperties
<1>9. {s[i] : i \in DOMAIN s} \subseteq {accepted[f][p] : p \in DOMAIN accepted[f]}
  <2>1. Kept(s, accepted[f], lost[f])
    BY <1>1, <1>5 DEF LogAccounted
  <2> QED
    BY <2>1 DEF Kept
<1>10. \A i \in 1..A : i \in DOMAIN s /\ a[i] = s[i]
  <2>1. SUFFICES ASSUME NEW i \in 1..A PROVE i \in DOMAIN s /\ a[i] = s[i]
    OBVIOUS
  <2>2. i \in 1..(A + B) /\ i \in 1..(A + B + C) /\ i <= A /\ i <= A + B
    BY <1>4
  <2> QED
    BY <1>6, <1>7, <1>8, <2>2
<1>11. \A i \in 1..B : A + i \in DOMAIN s /\ b[i] = s[A + i]
  <2>1. SUFFICES ASSUME NEW i \in 1..B PROVE A + i \in DOMAIN s /\ b[i] = s[A + i]
    OBVIOUS
  <2>2. A + i \in 1..(A + B) /\ A + i \in 1..(A + B + C) /\ ~(A + i <= A) /\ A + i <= A + B
        /\ (A + i) - A = i
    BY <1>4
  <2> QED
    BY <1>6, <1>7, <1>8, <2>2
<1> QED
  BY <1>1, <1>3, <1>9, <1>10, <1>11

\* Every step keeps the numbers of the lines apart.
LEMMA NextNumbers ==
    TypeOK /\ Quiet /\ Nested /\ Numbered /\ Unsent /\ LogAccounted /\ [Next]_vars
        => Nested' /\ Numbered' /\ Unsent'
<1>0. SUFFICES ASSUME TypeOK, Quiet, Nested, Numbered, Unsent, LogAccounted, [Next]_vars
               PROVE  Nested' /\ Numbered' /\ Unsent'
  OBVIOUS
<1>1. ASSUME NEW a \in Actors, NEW s, StackStep(a, s), accepted' = accepted, lost' = lost
      PROVE  Nested' /\ Numbered' /\ Unsent'
  BY <1>0, <1>1, StackSteps, StillUnsent
<1>2. ASSUME UNCHANGED <<stack, count, accepted, lost>> PROVE Nested' /\ Numbered' /\ Unsent'
  BY <1>0, <1>2, NumbersStay
<1>3. ASSUME NEW a \in Actors, EventStep(a) PROVE Nested' /\ Numbered' /\ Unsent'
  <2>1. CASE Return(a)
    BY <1>0, <1>1, <2>1, Returns DEF Return
  <2>2. ASSUME NEW f \in Files, Send(a, f) PROVE Nested' /\ Numbered' /\ Unsent'
    BY <1>0, <2>2, Sends, StackSteps, SentOnce
  <2>3. ASSUME NEW f \in Files, Discard(a, f) PROVE Nested' /\ Numbered' /\ Unsent'
    BY <1>0, <1>1, <2>3, Discards DEF Discard
  <2>4. ASSUME NEW f \in Files, Overflow(a, f) PROVE Nested' /\ Numbered' /\ Unsent'
    BY <1>2, <2>4 DEF Overflow
  <2> QED
    BY <1>3, <2>1, <2>2, <2>3, <2>4 DEF EventStep
<1>4. ASSUME NEW f \in Files, WriterStep(f) PROVE Nested' /\ Numbered' /\ Unsent'
  <2>1. CASE Receive(f) \/ WriteAll(f) \/ ReceiveShutdown(f)
    BY <1>2, <2>1 DEF Receive, WriteAll, ReceiveShutdown
  <2>2. CASE WriteFails(f)
    <3>1. f \in Actors /\ stack' = [stack EXCEPT ![f] = <<Frame("ioerror")>>] /\ count' = count + 1
          /\ accepted' = accepted
      BY <2>2 DEF WriteFails, Actors
    <3>2. StackStep(f, <<Frame("ioerror")>>)
      BY <1>0, <3>1, Starts
    <3>3. PICK k \in 0..(Len(buf[f]) - 1) :
             lost' = [lost EXCEPT ![f] = @ \cup {buf[f][i] : i \in (k + 1)..Len(buf[f])}]
      BY <2>2 DEF WriteFails
    <3>4. buf[f] \in Seq(Line) /\ lost \in [Files -> SUBSET Line]
      BY <1>0 DEF TypeOK, WritersOK
    <3>5. (k + 1)..Len(buf[f]) \subseteq 1..Len(buf[f])
      BY <3>3, <3>4, LenProperties
    <3>6. \A g \in Files :
             lost'[g] \subseteq lost[g] \cup {accepted[g][p] : p \in DOMAIN accepted[g]}
      BY <1>0, <3>3, <3>4, <3>5, HeldAccepted
    <3> QED
      BY <1>0, <3>1, <3>2, <3>6, StackSteps, StillUnsent
  <2> QED
    BY <1>4, <2>1, <2>2 DEF WriterStep
<1>5. ASSUME NEW f \in Files, SecondRun(f) PROVE Nested' /\ Numbered' /\ Unsent'
  <2>1. lost' = [lost EXCEPT ![f] = @ \cup {file[f][i] : i \in 1..Len(file[f])}]
        /\ UNCHANGED <<stack, count, accepted>>
    BY <1>5 DEF SecondRun
  <2>2. \A g \in Files :
           lost'[g] \subseteq lost[g] \cup {accepted[g][p] : p \in DOMAIN accepted[g]}
    BY <1>0, <2>1, HeldAccepted DEF TypeOK, WritersOK
  <2> QED
    BY <1>0, <2>1, <2>2, NumbersStay
<1>6. CASE RunForever
  <2>1. DOMAIN <<>> = {}
    OBVIOUS
  <2>2. \A a \in Actors : stack'[a] = stack[a] \/ DOMAIN stack'[a] = {}
    BY <1>6, <2>1 DEF RunForever
  <2>3. UNCHANGED <<count, accepted, lost>>
    BY <1>6 DEF RunForever
  <2> QED
    BY <1>0, <2>2, <2>3 DEF Nested, Numbered, Unsent
<1>7. ASSUME NEW t \in Threads, NEW kind \in {"request", "failure"}, Emit(t, kind)
      PROVE  Nested' /\ Numbered' /\ Unsent'
  <2>1. t \in Actors /\ accepted' = accepted /\ lost' = lost
    BY <1>7 DEF Emit, Actors
  <2>2. StackStep(t, <<Frame(kind)>>)
    BY <1>0, <1>7, <2>1, Starts DEF Emit
  <2> QED
    BY <1>1, <2>1, <2>2
<1>8. ASSUME NEW t \in Threads, LogAccess(t) \/ LogError(t) PROVE Nested' /\ Numbered' /\ Unsent'
  BY <1>7, <1>8 DEF LogAccess, LogError
<1>9. ASSUME NEW f \in Files, NewWriter(f) \/ NewWriterFails(f) \/ Tick(f)
      PROVE  Nested' /\ Numbered' /\ Unsent'
  BY <1>2, <1>9 DEF NewWriter, NewWriterFails, Tick
<1>10. CASE Started \/ Exit \/ UNCHANGED vars
  BY <1>2, <1>10 DEF Started, Exit, vars
<1> QED
  BY <1>0, <1>3, <1>4, <1>5, <1>6, <1>8, <1>9, <1>10 DEF Next

-----------------------------------------------------------------------------
(* Accepted lines are accounted for.                                       *)

\* Nothing happens to the lines of file f.
LEMMA SameLines ==
    ASSUME LogAccounted, NEW f \in Files,
           file'[f] = file[f], buf'[f] = buf[f], chan'[f] = chan[f],
           accepted'[f] = accepted[f], lost'[f] = lost[f]
    PROVE  Kept(file'[f] \o buf'[f] \o Waiting(f)', accepted'[f], lost'[f])
<1>1. Waiting(f)' = Waiting(f)
  BY DEF Waiting
<1> QED
  BY <1>1 DEF LogAccounted

\* A line goes from the channel to the buffer.
LEMMA TakeConcat ==
    ASSUME NEW a \in Seq(Line), NEW b \in Seq(Line), NEW c \in Seq(Line), c # <<>>
    PROVE  (a \o Append(b, Head(c))) \o Tail(c) = (a \o b) \o c
<1>1. PICK h, t : h = Head(c) /\ t = Tail(c)
  OBVIOUS
<1>2. h \in Line /\ t \in Seq(Line) /\ <<h>> \in Seq(Line)
  BY <1>1, HeadTailProperties
<1>3. c = <<h>> \o t
  <2>1. PICK u : u = <<h>> \o t
    OBVIOUS
  <2>2. PICK n : n = Len(t)
    OBVIOUS
  <2>3. n \in Nat /\ Len(c) = n + 1 /\ Len(c) \in Nat /\ c[1] = h /\ \A i \in 1..n : t[i] = c[i + 1]
    BY <1>1, <1>2, <2>2, HeadTailProperties, LenProperties
  <2>4. /\ u \in Seq(Line) /\ Len(u) = 1 + n
        /\ \A i \in 1..(1 + n) : u[i] = IF i <= 1 THEN <<h>>[i] ELSE t[i - 1]
    <3>1. Len(<<h>>) = 1
      OBVIOUS
    <3> QED
      BY <1>2, <2>1, <2>2, <3>1, ConcatProperties
  <2>5. \A i \in 1..Len(c) : c[i] = u[i]
    <3>1. SUFFICES ASSUME NEW i \in 1..(n + 1) PROVE c[i] = u[i]
      BY <2>3
    <3>2. CASE i = 1
      <4>1. <<h>>[1] = h /\ 1 \in 1..(1 + n)
        BY <2>3
      <4> QED
        BY <2>3, <2>4, <3>2, <4>1
    <3>3. CASE i # 1
      <4>1. i - 1 \in 1..n /\ ~(i <= 1) /\ i \in 1..(1 + n) /\ (i - 1) + 1 = i
        BY <2>3, <3>3
      <4> QED
        BY <2>3, <2>4, <4>1
    <3> QED
      BY <3>2, <3>3
  <2>6. Len(c) = Len(u)
    BY <2>3, <2>4
  <2> QED
    BY <2>1, <2>4, <2>5, <2>6, SeqEqual
<1>4. Append(b, h) = b \o <<h>>
  BY <1>2, AppendIsConcat
<1>5. b \o <<h>> \in Seq(Line) /\ a \o b \in Seq(Line)
  BY <1>2, ConcatProperties
<1>6. a \o (b \o <<h>>) = (a \o b) \o <<h>>
  BY <1>2, ConcatAssociative
<1>7. ((a \o b) \o <<h>>) \o t = (a \o b) \o (<<h>> \o t)
  BY <1>2, <1>5, ConcatAssociative
<1> QED
  BY <1>1, <1>3, <1>4, <1>6, <1>7

\* The lines of the file of a step, for a step that concerns one file only.
LEMMA OneFile ==
    ASSUME TypeOK, LogAccounted, NEW f \in Files,
           \A g \in Files : g # f =>
              /\ file'[g] = file[g] /\ buf'[g] = buf[g] /\ chan'[g] = chan[g]
              /\ accepted'[g] = accepted[g] /\ lost'[g] = lost[g],
           Kept(file'[f] \o buf'[f] \o Waiting(f)', accepted'[f], lost'[f])
    PROVE  LogAccounted'
<1>1. \A g \in Files : Kept(file'[g] \o buf'[g] \o Waiting(g)', accepted'[g], lost'[g])
  <2>1. SUFFICES ASSUME NEW g \in Files, g # f
                 PROVE  Kept(file'[g] \o buf'[g] \o Waiting(g)', accepted'[g], lost'[g])
    OBVIOUS
  <2> QED
    BY <2>1, SameLines
<1> QED
  BY <1>1 DEF LogAccounted

\* Send: the line takes the last place of the channel and of the history.
LEMMA SendAccounted ==
    ASSUME TypeOK, Quiet, Unsent, LogAccounted, TypeOK', Quiet',
           NEW a \in Actors, NEW f \in Files, Send(a, f)
    PROVE  LogAccounted'
<1>1. PICK x, t, c, m : x = Top(a).line /\ t = file[f] \o buf[f] /\ c = chan[f] /\ m = accepted[f]
  OBVIOUS
<1>2. Up /\ f \in Top(a).todo /\ Len(stack[a]) \in DOMAIN stack[a] /\ x \in Line
      /\ Top(a) = stack[a][Len(stack[a])]
  BY <1>1, AtLayerOK, TopOK DEF Send, FrameType
<1>3. c \in Seq(Line) /\ Waiting(f) = c
  BY <1>1, <1>2, WaitingOK DEF Quiet
<1>4. t \in Seq(Line) /\ m \in Seq(Line)
  BY <1>1, ConcatProperties DEF TypeOK, WritersOK
<1>5. t \o c \in Seq(Line) /\ Append(c, x) \in Seq(Line)
  BY <1>2, <1>3, <1>4, ConcatProperties, AppendProperties
<1>6. Kept(t \o c, m, lost[f])
  BY <1>1, <1>3 DEF LogAccounted
<1>7. \A p \in DOMAIN m : m[p] # x
  BY <1>1, <1>2 DEF Unsent
<1>8. x \notin lost[f]
  BY <1>1, <1>7 DEF Unsent
<1>9. Kept(Append(t \o c, x), Append(m, x), lost[f])
  BY <1>2, <1>4, <1>5, <1>6, <1>7, <1>8, KeptAppend
<1>10. Append(t \o c, x) = t \o Append(c, x)
  <2>1. <<x>> \in Seq(Line)
    BY <1>2
  <2>2. Append(t \o c, x) = (t \o c) \o <<x>> /\ Append(c, x) = c \o <<x>>
    BY <1>2, <1>3, <1>5, AppendIsConcat
  <2> QED
    BY <1>3, <1>4, <2>1, <2>2, ConcatAssociative
<1>11. /\ chan'[f] = Append(c, x) /\ accepted'[f] = Append(m, x)
       /\ UNCHANGED <<file, buf, lost>>
       /\ \A g \in Files : g # f => chan'[g] = chan[g] /\ accepted'[g] = accepted[g]
  BY <1>1 DEF Send, TypeOK, ChannelsOK, WritersOK
<1>12. Waiting(f)' = Append(c, x)
  <2>1. PICK d : d = Append(c, x)
    OBVIOUS
  <2>2. d # <<Shutdown>>
    <3>1. SUFFICES ASSUME d = <<Shutdown>> PROVE FALSE
      OBVIOUS
    <3>2. d \in Seq(Line) /\ d # <<>> /\ Head(d) = Shutdown
      BY <1>5, <2>1, <3>1
    <3>3. Head(d) \in Line
      BY <3>2, HeadTailProperties
    <3> QED
      BY <3>2, <3>3 DEF Line
  <2> QED
    BY <1>11, <2>1, <2>2 DEF Waiting
<1>13. Kept(file'[f] \o buf'[f] \o Waiting(f)', accepted'[f], lost'[f])
  BY <1>1, <1>9, <1>10, <1>11, <1>12
<1> QED
  BY <1>11, <1>13, OneFile

\* Receive and WriteAll move lines on.
LEMMA MoveAccounted ==
    ASSUME TypeOK, Quiet, LogAccounted, NEW f \in Files, Receive(f) \/ WriteAll(f)
    PROVE  LogAccounted'
<1>0. PICK a, b, c : a = file[f] /\ b = buf[f] /\ c = Waiting(f)
  OBVIOUS
<1>1. a \in Seq(Line) /\ b \in Seq(Line) /\ c \in Seq(Line)
  BY <1>0, WaitingOK DEF TypeOK, WritersOK
<1>2. Kept((a \o b) \o c, accepted[f], lost[f])
  BY <1>0 DEF LogAccounted
<1>3. CASE Receive(f)
  <2>1. chan[f] # <<>> /\ Head(chan[f]) # Shutdown
    BY <1>3 DEF Receive
  <2>2. chan[f] # <<Shutdown>>
    <3>1. Head(<<Shutdown>>) = Shutdown
      OBVIOUS
    <3> QED
      BY <2>1, <3>1
  <2>3. c = chan[f] /\ c # <<>>
    BY <1>0, <2>1, <2>2 DEF Waiting
  <2>4. Tail(c) \in Seq(Line) /\ Tail(c) # <<Shutdown>>
    <3>1. PICK d : d = Tail(c)
      OBVIOUS
    <3>2. d \in Seq(Line)
      BY <1>1, <2>3, <3>1, HeadTailProperties
    <3>3. d # <<Shutdown>>
      <4>1. SUFFICES ASSUME d = <<Shutdown>> PROVE FALSE
        OBVIOUS
      <4>2. d # <<>> /\ Head(d) = Shutdown
        BY <4>1
      <4>3. Head(d) \in Line
        BY <3>2, <4>2, HeadTailProperties
      <4> QED
        BY <4>2, <4>3 DEF Line
    <3> QED
      BY <3>1, <3>2, <3>3
  <2>5. /\ chan'[f] = Tail(c) /\ buf'[f] = Append(b, Head(c))
        /\ UNCHANGED <<file, accepted, lost>>
        /\ \A g \in Files : g # f => chan'[g] = chan[g] /\ buf'[g] = buf[g]
    BY <1>0, <1>3, <2>3 DEF Receive, TypeOK, ChannelsOK, WritersOK
  <2>6. Waiting(f)' = Tail(c)
    BY <2>4, <2>5 DEF Waiting
  <2>7. (a \o Append(b, Head(c))) \o Tail(c) = (a \o b) \o c
    BY <1>1, <2>3, TakeConcat
  <2>8. Kept(file'[f] \o buf'[f] \o Waiting(f)', accepted'[f], lost'[f])
    BY <1>0, <1>2, <2>5, <2>6, <2>7
  <2> QED
    BY <2>5, <2>8, OneFile
<1>4. CASE WriteAll(f)
  <2>1. /\ file'[f] = a \o b /\ buf'[f] = <<>>
        /\ UNCHANGED <<chan, accepted, lost>>
        /\ \A g \in Files : g # f => file'[g] = file[g] /\ buf'[g] = buf[g]
    BY <1>0, <1>4 DEF WriteAll, TypeOK, WritersOK
  <2>2. Waiting(f)' = c
    BY <1>0, <2>1 DEF Waiting
  <2>3. (a \o b) \o <<>> = a \o b
    BY <1>1, ConcatProperties, ConcatEmptySeq
  <2>4. Kept(file'[f] \o buf'[f] \o Waiting(f)', accepted'[f], lost'[f])
    BY <1>2, <2>1, <2>2, <2>3
  <2> QED
    BY <2>1, <2>4, OneFile
<1> QED
  BY <1>3, <1>4

\* WriteFails: the lines from the k-th on are gone.
LEMMA FailAccounted ==
    ASSUME TypeOK, Quiet, LogAccounted, NEW f \in Files, WriteFails(f)
    PROVE  LogAccounted'
<1>0. PICK a, b, c : a = file[f] /\ b = buf[f] /\ c = Waiting(f)
  OBVIOUS
<1>1. a \in Seq(Line) /\ b \in Seq(Line) /\ c \in Seq(Line)
  BY <1>0, WaitingOK DEF TypeOK, WritersOK
<1>2. Kept((a \o b) \o c, accepted[f], lost[f])
  BY <1>0 DEF LogAccounted
<1>3. PICK k \in 0..(Len(b) - 1) :
         /\ file' = [file EXCEPT ![f] = @ \o SubSeq(buf[f], 1, k)]
         /\ lost' = [lost EXCEPT ![f] = @ \cup {buf[f][i] : i \in (k + 1)..Len(buf[f])}]
  BY <1>0 DEF WriteFails
<1>4. PICK n : n = Len(b)
  OBVIOUS
<1>5. n \in Nat /\ k \in Nat /\ k < n /\ \A i \in 1..n : b[i] \in Line
  BY <1>1, <1>3, <1>4, LenProperties, ElementOfSeq
<1>6. PICK u, v : u = SubSeq(b, 1, k) /\ v = SubSeq(b, k + 1, n)
  OBVIOUS
<1>7. u \in Seq(Line)
  <2>1. \A i \in 1..k : b[i] \in Line
    BY <1>5
  <2> QED
    BY <1>5, <1>6, <2>1, SubSeqProperties
<1>8. v \in Seq(Line) /\ Len(v) = n - k /\ \A i \in 1..(n - k) : v[i] = b[k + i]
  <2>1. \A i \in (k + 1)..n : b[i] \in Line
    BY <1>5
  <2>2. /\ v \in Seq(Line) /\ Len(v) = IF k + 1 <= n THEN n - (k + 1) + 1 ELSE 0
        /\ \A i \in 1..(n - (k + 1) + 1) : v[i] = b[(k + 1) + i - 1]
    BY <1>5, <1>6, <2>1, SubSeqProperties
  <2> QED
    BY <1>5, <2>2
<1>9. b = u \o v
  <2>1. 1 \in 1..(Len(b) + 1) /\ k \in (1 - 1)..Len(b) /\ n \in k..Len(b)
    BY <1>4, <1>5
  <2>2. SubSeq(b, 1, k) \o SubSeq(b, k + 1, n) = SubSeq(b, 1, n)
    BY <1>1, <2>1, ConcatAdjacentSubSeq
  <2> QED
    BY <1>1, <1>4, <1>6, <2>2, SubSeqFull
<1>10. {v[i] : i \in DOMAIN v} = {b[i] : i \in (k + 1)..n}
  <2>1. DOMAIN v = 1..(n - k)
    BY <1>8, LenProperties
  <2>2. \A i \in (k + 1)..n : i - k \in 1..(n - k) /\ k + (i - k) = i
    BY <1>5
  <2>3. \A i \in 1..(n - k) : k + i \in (k + 1)..n
    BY <1>5
  <2>4. \A i \in (k + 1)..n : v[i - k] = b[i]
    BY <1>8, <2>2
  <2> QED
    BY <1>8, <2>1, <2>2, <2>3, <2>4
<1>11. (a \o b) \o c = ((a \o u) \o v) \o c
  <2>1. a \in Seq(Line) /\ u \in Seq(Line) /\ v \in Seq(Line)
    BY <1>1, <1>7, <1>8
  <2>2. (a \o u) \o v = a \o (u \o v)
    BY <2>1, ConcatAssociative
  <2> QED
    BY <1>9, <2>2
<1>12. a \o u \in Seq(Line)
  BY <1>1, <1>7, ConcatProperties
<1>13. accepted[f] \in Seq(Line)
  BY DEF TypeOK, WritersOK
<1>14. Kept((a \o u) \o c, accepted[f], lost[f] \cup {v[i] : i \in DOMAIN v})
  BY <1>1, <1>2, <1>8, <1>11, <1>12, <1>13, KeptCut
<1>15. /\ file'[f] = a \o u /\ buf'[f] = <<>> /\ lost'[f] = lost[f] \cup {v[i] : i \in DOMAIN v}
       /\ UNCHANGED <<chan, accepted>>
       /\ \A g \in Files : g # f => file'[g] = file[g] /\ buf'[g] = buf[g] /\ lost'[g] = lost[g]
  <2>1. /\ file' = [file EXCEPT ![f] = a \o u]
        /\ lost' = [lost EXCEPT ![f] = lost[f] \cup {v[i] : i \in DOMAIN v}]
    <3>1. SubSeq(buf[f], 1, k) = u /\ {buf[f][i] : i \in (k + 1)..Len(buf[f])} = {v[i] : i \in DOMAIN v}
      BY <1>0, <1>4, <1>6, <1>10
    <3> QED
      BY <1>0, <1>3, <3>1
  <2>2. buf' = [buf EXCEPT ![f] = <<>>] /\ UNCHANGED <<chan, accepted>>
    BY DEF WriteFails
  <2> QED
    BY <2>1, <2>2 DEF TypeOK, WritersOK
<1>16. Waiting(f)' = c
  BY <1>0, <1>15 DEF Waiting
<1>17. (a \o u) \o <<>> = a \o u
  BY <1>12, ConcatEmptySeq
<1>18. Kept(file'[f] \o buf'[f] \o Waiting(f)', accepted'[f], lost'[f])
  BY <1>14, <1>15, <1>16, <1>17
<1> QED
  BY <1>15, <1>18, OneFile

\* SecondRun: all lines in the file are gone.
LEMMA CutAccounted ==
    ASSUME TypeOK, Quiet, LogAccounted, NEW f \in Files, SecondRun(f)
    PROVE  LogAccounted'
<1>0. PICK a, b, c : a = file[f] /\ b = buf[f] /\ c = Waiting(f)
  OBVIOUS
<1>1. a \in Seq(Line) /\ b \in Seq(Line) /\ c \in Seq(Line) /\ <<>> \in Seq(Line)
      /\ accepted[f] \in Seq(Line)
  BY <1>0, WaitingOK, EmptySeq DEF TypeOK, WritersOK
<1>2. Kept((a \o b) \o c, accepted[f], lost[f])
  BY <1>0 DEF LogAccounted
<1>3. b \o c \in Seq(Line) /\ (a \o b) \o c = (<<>> \o a) \o (b \o c)
  <2>1. b \o c \in Seq(Line) /\ <<>> \o a = a
    BY <1>1, ConcatProperties, ConcatEmptySeq
  <2>2. (a \o b) \o c = a \o (b \o c)
    BY <1>1, ConcatAssociative
  <2> QED
    BY <2>1, <2>2
<1>4. Kept(<<>> \o (b \o c), accepted[f], lost[f] \cup {a[i] : i \in DOMAIN a})
  BY <1>1, <1>2, <1>3, KeptCut
<1>5. <<>> \o (b \o c) = (<<>> \o b) \o c
  BY <1>1, ConcatAssociative
<1>6. DOMAIN a = 1..Len(a)
  BY <1>1, LenProperties
<1>7. /\ file'[f] = <<>> /\ lost'[f] = lost[f] \cup {a[i] : i \in DOMAIN a}
      /\ UNCHANGED <<chan, buf, accepted>>
      /\ \A g \in Files : g # f => file'[g] = file[g] /\ lost'[g] = lost[g]
  <2>1. /\ file' = [file EXCEPT ![f] = <<>>]
        /\ lost' = [lost EXCEPT ![f] = lost[f] \cup {a[i] : i \in DOMAIN a}]
        /\ UNCHANGED <<chan, buf, accepted>>
    <3>1. {file[f][i] : i \in 1..Len(file[f])} = {a[i] : i \in DOMAIN a}
      BY <1>0, <1>6
    <3> QED
      BY <3>1 DEF SecondRun
  <2> QED
    BY <2>1 DEF TypeOK, WritersOK
<1>8. Waiting(f)' = c
  BY <1>0, <1>7 DEF Waiting
<1>9. Kept(file'[f] \o buf'[f] \o Waiting(f)', accepted'[f], lost'[f])
  BY <1>0, <1>4, <1>5, <1>7, <1>8
<1> QED
  BY <1>7, <1>9, OneFile

\* Every step accounts for the lines.
LEMMA NextAccounted ==
    TypeOK /\ Quiet /\ Unsent /\ LogAccounted /\ TypeOK' /\ Quiet' /\ [Next]_vars => LogAccounted'
<1>0. SUFFICES ASSUME TypeOK, Quiet, Unsent, LogAccounted, TypeOK', Quiet', [Next]_vars
               PROVE  LogAccounted'
  OBVIOUS
<1>1. ASSUME UNCHANGED <<file, buf, chan, accepted, lost>> PROVE LogAccounted'
  <2>1. \A f \in Files : Waiting(f)' = Waiting(f)
    BY <1>1 DEF Waiting
  <2> QED
    BY <1>0, <1>1, <2>1 DEF LogAccounted
<1>2. ASSUME phase' \in {"init", "silent"} PROVE LogAccounted'
  <2>1. ASSUME NEW f \in Files
        PROVE  Kept(file'[f] \o buf'[f] \o Waiting(f)', accepted'[f], lost'[f])
    <3>1. file'[f] = <<>> /\ buf'[f] = <<>> /\ accepted'[f] = <<>> /\ Waiting(f)' = <<>>
      <4>1. chan'[f] \in {<<>>, <<Shutdown>>}
        BY <1>0, <1>2 DEF Quiet
      <4> QED
        BY <1>0, <1>2, <4>1 DEF Quiet, Waiting
    <3>2. <<>> \o <<>> = <<>>
      OBVIOUS
    <3>3. Kept(<<>>, <<>>, lost'[f])
      BY KeptEmpty
    <3> QED
      BY <3>1, <3>2, <3>3
  <2> QED
    BY <2>1 DEF LogAccounted
<1>3. ASSUME NEW f \in Files, ReceiveShutdown(f) PROVE LogAccounted'
  <2>1. phase \in {"init", "silent"} \/ Up
    BY <1>3 DEF ReceiveShutdown, Running
  <2>2. chan[f] # <<>> /\ Head(chan[f]) = Shutdown /\ phase' = phase
    BY <1>3 DEF ReceiveShutdown, startVars
  <2>3. ~Up
    <3>1. chan[f] \in Seq(Line) => Head(chan[f]) \in Line
      BY <2>2, HeadTailProperties
    <3> QED
      BY <1>0, <2>2, <3>1 DEF Quiet, Line
  <2> QED
    BY <1>2, <2>1, <2>2, <2>3
<1>4. ASSUME NEW f \in Files, NewWriter(f) \/ NewWriterFails(f) PROVE LogAccounted'
  BY <1>2, <1>4 DEF NewWriter, NewWriterFails, NextToOpen
<1>5. ASSUME NEW f \in Files, WriterStep(f) PROVE LogAccounted'
  BY <1>0, <1>3, <1>5, MoveAccounted, FailAccounted DEF WriterStep
<1>6. ASSUME NEW f \in Files, Tick(f) PROVE LogAccounted'
  BY <1>1, <1>6 DEF Tick
<1>7. ASSUME NEW f \in Files, SecondRun(f) PROVE LogAccounted'
  BY <1>0, <1>7, CutAccounted
<1>8. ASSUME NEW a \in Actors, EventStep(a) PROVE LogAccounted'
  <2>1. CASE Return(a)
    BY <1>1, <2>1 DEF Return
  <2>2. ASSUME NEW f \in Files, Send(a, f) PROVE LogAccounted'
    BY <1>0, <2>2, SendAccounted
  <2>3. ASSUME NEW f \in Files, Discard(a, f) \/ Overflow(a, f) PROVE LogAccounted'
    BY <1>1, <2>3 DEF Discard, Overflow
  <2> QED
    BY <1>8, <2>1, <2>2, <2>3 DEF EventStep
<1>9. ASSUME NEW t \in Threads, LogAccess(t) \/ LogError(t) PROVE LogAccounted'
  BY <1>1, <1>9 DEF LogAccess, LogError, Emit
<1>10. CASE Started \/ RunForever \/ Exit \/ UNCHANGED vars
  BY <1>1, <1>10 DEF Started, RunForever, Exit, vars
<1> QED
  BY <1>0, <1>4, <1>5, <1>6, <1>7, <1>8, <1>9, <1>10 DEF Next

-----------------------------------------------------------------------------
(* What brings the process down.                                           *)

\* An event at the layer of the error log is the outermost one, which leaves
\* room for the event about a full channel.
LEMMA OverflowAtAccess ==
    ASSUME TypeOK, Nested, NEW a \in Actors, NEW f \in Files, Overflow(a, f)
    PROVE  f = "access"
<1>1. Len(stack[a]) \in DOMAIN stack[a] /\ Top(a) = stack[a][Len(stack[a])] /\ f \in Top(a).todo
  BY AtLayerOK, TopOK DEF Overflow
<1>2. Len(stack[a]) = StackDepth /\ StackDepth > 1
  BY DEF Overflow
<1> QED
  BY <1>1, <1>2 DEF Nested

\* Only a full access log aborts.
LEMMA NextAborted ==
    TypeOK /\ Nested /\ AbortedByAccessOnly /\ [Next]_vars => AbortedByAccessOnly'
<1>0. SUFFICES ASSUME TypeOK, Nested, AbortedByAccessOnly, [Next]_vars, phase' = "aborted"
               PROVE  ~HasRoom("access")'
  BY DEF AbortedByAccessOnly
<1>1. ASSUME NEW a \in Actors, NEW f \in Files, Overflow(a, f) PROVE ~HasRoom("access")'
  BY <1>0, <1>1, OverflowAtAccess DEF Overflow, HasRoom
<1>2. CASE UNCHANGED vars
  BY <1>0, <1>2 DEF vars, AbortedByAccessOnly, HasRoom
<1>3. CASE phase = "aborted" /\ Next
  <2>1. ASSUME NEW a \in Actors, EventStep(a) PROVE FALSE
    BY <1>3, <2>1 DEF EventStep, Return, Send, Discard, Overflow, AtLayer, Up
  <2>2. ASSUME NEW f \in Files, WriterStep(f) PROVE FALSE
    BY <1>3, <2>2 DEF WriterStep, Receive, WriteAll, WriteFails, ReceiveShutdown, Running, Up
  <2>3. ASSUME NEW f \in Files, NewWriter(f) \/ NewWriterFails(f) \/ Tick(f) \/ SecondRun(f) PROVE FALSE
    BY <1>3, <2>3 DEF NewWriter, NewWriterFails, NextToOpen, Tick, SecondRun, Up
  <2>4. ASSUME NEW t \in Threads, LogAccess(t) \/ LogError(t) PROVE FALSE
    BY <1>3, <2>4 DEF LogAccess, LogError, Emit, Up
  <2> QED
    BY <1>3, <2>1, <2>2, <2>3, <2>4 DEF Next, Started, RunForever, Exit
<1>4. CASE phase # "aborted" /\ Next
  <2>1. ASSUME NEW a \in Actors, EventStep(a) PROVE ~HasRoom("access")'
    <3>1. CASE \E f \in Files : Overflow(a, f)
      BY <1>1, <3>1
    <3>2. CASE Return(a) \/ \E f \in Files : Send(a, f) \/ Discard(a, f)
      BY <1>0, <1>4, <3>2 DEF Return, Send, Discard, startVars
    <3> QED
      BY <2>1, <3>1, <3>2 DEF EventStep
  <2>2. ASSUME NEW f \in Files, WriterStep(f) PROVE FALSE
    BY <1>0, <1>4, <2>2 DEF WriterStep, Receive, WriteAll, WriteFails, ReceiveShutdown, startVars
  <2>3. ASSUME NEW f \in Files, NewWriter(f) \/ NewWriterFails(f) \/ Tick(f) \/ SecondRun(f) PROVE FALSE
    BY <1>0, <1>4, <2>3 DEF NewWriter, NewWriterFails, Tick, SecondRun, startVars
  <2>4. ASSUME NEW t \in Threads, LogAccess(t) \/ LogError(t) PROVE FALSE
    BY <1>0, <1>4, <2>4 DEF LogAccess, LogError, Emit, startVars
  <2> QED
    BY <1>0, <1>4, <2>1, <2>2, <2>3, <2>4 DEF Next, Started, RunForever, Exit
<1> QED
  BY <1>0, <1>2, <1>3, <1>4

-----------------------------------------------------------------------------
(* The theorems.                                                           *)

\* The first state.
LEMMA InitInv == Init => IInv
<1>1. SUFFICES ASSUME Init PROVE LogAccounted /\ AbortedByAccessOnly
  BY InitShape, InitNumbers DEF IInv
<1>2. ASSUME NEW f \in Files PROVE Kept(file[f] \o buf[f] \o Waiting(f), accepted[f], lost[f])
  <2>1. file[f] = <<>> /\ buf[f] = <<>> /\ accepted[f] = <<>> /\ Waiting(f) = <<>>
    BY <1>1 DEF Init, Waiting
  <2>2. <<>> \o <<>> = <<>>
    OBVIOUS
  <2>3. Kept(<<>>, <<>>, lost[f])
    BY KeptEmpty
  <2> QED
    BY <2>1, <2>2, <2>3
<1>3. phase = "init"
  BY <1>1 DEF Init
<1> QED
  BY <1>2, <1>3 DEF LogAccounted, AbortedByAccessOnly

\* Every step.
LEMMA NextInv == IInv /\ [Next]_vars => IInv'
BY NextShape, NextNumbers, NextAccounted, NextAborted DEF IInv

\* The inductive invariant holds.
LEMMA Invariant == Spec => []IInv
BY InitInv, NextInv, PTL DEF Spec

\* The state keeps its types, for any number of threads, channels of any
\* capacity and stacks of any depth from two on: write() never overfills a
\* channel, and the events it nests never outgrow the stack.
THEOREM LogTypeCorrect == Spec => []TypeOK
<1>1. IInv => TypeOK
  BY DEF IInv
<1> QED
  BY <1>1, Invariant, PTL

\* A line that AsyncLogWriter::write accepted is in its file, its writer's
\* buffer or its channel, once and in the order of acceptance, unless a
\* failed write or a truncation destroyed it, whatever threads, writers,
\* faults, a fork or a second run do in between.
THEOREM LinesAccounted == Spec => []LogAccounted
<1>1. IInv => LogAccounted
  BY DEF IInv
<1> QED
  BY <1>1, Invariant, PTL

\* The warning of write() about a full channel recurses only through the
\* access log: when it exhausts the stack, the access channel is full.
THEOREM AbortsByAccessOnly == Spec => []AbortedByAccessOnly
<1>1. IInv => AbortedByAccessOnly
  BY DEF IInv
<1> QED
  BY <1>1, Invariant, PTL
=============================================================================
