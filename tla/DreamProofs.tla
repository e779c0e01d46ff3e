---------------------------- MODULE DreamProofs ----------------------------
(***************************************************************************)
(* The background work of Dream is sound, whatever the sets of runs,       *)
(* requests, keys, claims and confirmations are, and whatever the sections *)
(* and bounds of a Reflections task.                                       *)
(*                                                                         *)
(* Runs: a history tells its row (Tells) and every operation moves one run *)
(* along the edges (Moved).  Launches: LaunchInv adds who owns a preflight,*)
(* that a row that was not inserted bought nothing, and for which source a *)
(* claim was issued.  Answers: ConfirmInv relates what was accepted to the *)
(* messages and to the confirmations in the histories.  Reflections: that  *)
(* an end is final needs that an ended task has no section that may still  *)
(* end (RowsTell, RowsComeTogether).                                       *)
(***************************************************************************)
EXTENDS DreamLaunch, StoryConfirmation, ReflectionTasks, FiniteSetTheorems, SequenceTheorems,
        TLAPS

AnyStatus  == Statuses \cup {"none"}
RunRow     == [status : AnyStatus, version : Nat, session : BOOLEAN]
Transition == [seq : Nat, from : AnyStatus, to : AnyStatus]

From(h, i) == IF i = 1 THEN "none" ELSE h[i - 1].to
Reached(h, s) == \E i \in 1 .. Len(h) : h[i].to = s

\* A row and its history agree.
Tells(row, h) ==
  /\ row \in RunRow /\ h \in Seq(Transition)
  /\ Len(h) = row.version
  /\ \A i \in 1 .. Len(h) : h[i].seq = i /\ h[i].from = From(h, i) /\ <<From(h, i), h[i].to>> \in Edges
  /\ row.status = From(h, Len(h) + 1)
  /\ Reached(h, "running") <=> row.session

RunInv ==
  /\ run \in [Runs -> RunRow] /\ history \in [Runs -> Seq(Transition)]
  /\ \A r \in Runs : Tells(run[r], history[r])

-----------------------------------------------------------------------------
(* The lifecycle and the paths in it.                                      *)

LEMMA LifecycleIs ==
  /\ Len(Lifecycle) = 6 /\ DOMAIN Lifecycle = 1 .. 6 /\ Lifecycle \in Seq(Nonterminal)
  /\ \A i, j \in 1 .. 6 : Lifecycle[i] = Lifecycle[j] => i = j
  /\ \A i \in 1 .. 6 : Place(Lifecycle[i]) = i /\ Lifecycle[i] \in Nonterminal
  /\ Lifecycle[1] = "preflight" /\ Lifecycle[2] = "queued" /\ Lifecycle[3] = "running"
  /\ Lifecycle[4] = "output_validating" /\ Lifecycle[5] = "pending_review"
  /\ Lifecycle[6] = "confirmed"
<1>1. Len(Lifecycle) = 6 /\ DOMAIN Lifecycle = 1 .. 6
  BY DEF Lifecycle
<1>2. /\ Lifecycle[1] = "preflight" /\ Lifecycle[2] = "queued" /\ Lifecycle[3] = "running"
      /\ Lifecycle[4] = "output_validating" /\ Lifecycle[5] = "pending_review"
      /\ Lifecycle[6] = "confirmed"
  BY DEF Lifecycle
<1>3. \A i, j \in 1 .. 6 : Lifecycle[i] = Lifecycle[j] => i = j
  BY <1>2
<1>4. \A i \in 1 .. 6 : Place(Lifecycle[i]) = i
  BY <1>1, <1>3 DEF Place
<1>5. \A i \in 1 .. 6 : Lifecycle[i] \in Nonterminal
  BY <1>1 DEF Nonterminal
<1>6. Lifecycle \in Seq(Nonterminal)
  <2>1. Lifecycle = [i \in 1 .. 6 |-> Lifecycle[i]]
    BY DEF Lifecycle
  <2> QED
    BY <1>5, <2>1, IsASeq
<1> QED
  BY <1>1, <1>2, <1>3, <1>4, <1>5, <1>6

LEMMA EdgesAre ==
  /\ \A i \in 1 .. 5 : <<Lifecycle[i], Lifecycle[i + 1]>> \in Edges
  /\ \A s \in Nonterminal, e \in {"failed", "cancelled"} : <<s, e>> \in Edges
  /\ <<"none", "preflight">> \in Edges
  /\ \A s, t : <<s, t>> \in Edges =>
       /\ t \in Statuses /\ s \in Nonterminal \cup {"none"}
       /\ s = "confirmed" => t \in {"failed", "cancelled"}
<1>1. \A i \in 1 .. 5 : <<Lifecycle[i], Lifecycle[i + 1]>> \in Edges
  BY LifecycleIs DEF Edges
<1>2. \A s \in Nonterminal, e \in {"failed", "cancelled"} : <<s, e>> \in Edges
  BY DEF Edges
<1>3. <<"none", "preflight">> \in Edges
  BY DEF Edges
<1>4. ASSUME NEW s, NEW t, <<s, t>> \in Edges
      PROVE  /\ t \in Statuses /\ s \in Nonterminal \cup {"none"}
             /\ s = "confirmed" => t \in {"failed", "cancelled"}
  <2>1. CASE \E i \in 1 .. 5 : <<s, t>> = <<Lifecycle[i], Lifecycle[i + 1]>>
    <3>1. PICK i \in 1 .. 5 : s = Lifecycle[i] /\ t = Lifecycle[i + 1]
      BY <2>1
    <3>2. i + 1 \in 1 .. 6 /\ i \in 1 .. 6 /\ i # 6
      OBVIOUS
    <3> QED
      BY <3>1, <3>2, LifecycleIs DEF Statuses
  <2>2. CASE s \in Nonterminal /\ t \in {"failed", "cancelled"}
    BY <2>2 DEF Statuses
  <2>3. CASE s = "none" /\ t = "preflight"
    BY <2>3, LifecycleIs DEF Statuses
  <2>4. \/ \E i \in 1 .. 5 : <<s, t>> = <<Lifecycle[i], Lifecycle[i + 1]>>
        \/ s \in Nonterminal /\ t \in {"failed", "cancelled"}
        \/ s = "none" /\ t = "preflight"
    BY <1>4, LifecycleIs DEF Edges
  <2> QED
    BY <2>1, <2>2, <2>3, <2>4
<1> QED
  BY <1>1, <1>2, <1>3, <1>4

LEMMA EndsAreNoStage ==
  /\ \A s \in Nonterminal \cup {"none"} : s \notin {"failed", "cancelled"}
  /\ "none" \notin Nonterminal
<1>1. ASSUME NEW s \in Nonterminal PROVE s \notin {"failed", "cancelled", "none"}
  <2>1. PICK i \in 1 .. 6 : s = Lifecycle[i]
    BY LifecycleIs DEF Nonterminal
  <2>2. i \in {1, 2, 3, 4, 5, 6}
    OBVIOUS
  <2> QED
    BY <2>1, <2>2, LifecycleIs
<1> QED
  BY <1>1

\* What Passes leaves.
PassedRow(row, path, session) ==
  [status |-> path[Len(path)], version |-> row.version + Len(path), session |-> session]
Passed(row, path) ==
  [i \in 1 .. Len(path) |-> [seq |-> row.version + i, to |-> path[i],
                             from |-> IF i = 1 THEN row.status ELSE path[i - 1]]]

\* A row that passes the statuses of a path along the edges agrees with its history still.
LEMMA PathTells ==
  ASSUME NEW row, NEW h, Tells(row, h), NEW path \in Seq(Statuses), Len(path) > 0,
         <<row.status, path[1]>> \in Edges,
         \A i \in 2 .. Len(path) : <<path[i - 1], path[i]>> \in Edges,
         NEW session \in BOOLEAN,
         session <=> (row.session \/ \E i \in 1 .. Len(path) : path[i] = "running")
  PROVE  /\ Tells(PassedRow(row, path, session), h \o Passed(row, path))
         /\ \A s : Reached(h \o Passed(row, path), s)
                     <=> (Reached(h, s) \/ \E i \in 1 .. Len(path) : path[i] = s)
<1> DEFINE n == Len(h)
           m == Len(path)
           T == [i \in 1 .. m |-> [seq |-> row.version + i, to |-> path[i],
                                   from |-> IF i = 1 THEN row.status ELSE path[i - 1]]]
           q == [status |-> path[m], version |-> row.version + m, session |-> session]
           k == h \o T
<1>1. /\ n \in Nat /\ m \in Nat /\ m > 0 /\ n = row.version /\ h \in Seq(Transition)
      /\ row \in RunRow /\ row.status \in AnyStatus
  BY DEF Tells, RunRow
<1>2. \A i \in 1 .. m : path[i] \in Statuses
  OBVIOUS
<1>3. \A i \in 1 .. m : /\ T[i] \in Transition /\ T[i].seq = n + i /\ T[i].to = path[i]
                        /\ T[i].from = IF i = 1 THEN row.status ELSE path[i - 1]
  <2> SUFFICES ASSUME NEW i \in 1 .. m
               PROVE  /\ T[i] \in Transition /\ T[i].seq = n + i /\ T[i].to = path[i]
                      /\ T[i].from = IF i = 1 THEN row.status ELSE path[i - 1]
    OBVIOUS
  <2> DEFINE f == IF i = 1 THEN row.status ELSE path[i - 1]
  <2>1. T[i] = [seq |-> row.version + i, to |-> path[i], from |-> f]
    OBVIOUS
  <2>2. f \in AnyStatus /\ path[i] \in AnyStatus /\ row.version + i \in Nat
    <3>1. i # 1 => i - 1 \in 1 .. m
      BY <1>1
    <3> QED
      BY <1>1, <1>2, <3>1 DEF AnyStatus
  <2> HIDE DEF f, T
  <2>3. T[i] \in Transition /\ T[i].seq = n + i /\ T[i].to = path[i] /\ T[i].from = f
    BY <1>1, <2>1, <2>2 DEF Transition
  <2> QED
    BY <2>3 DEF f
<1>4. T \in Seq(Transition) /\ Len(T) = m
  <2>1. \A i \in 1 .. m : T[i] \in Transition
    BY <1>3
  <2>2. T \in [1 .. m -> Transition]
    BY <2>1
  <2> HIDE DEF T
  <2> QED
    BY <1>1, <2>2
<1> HIDE DEF T, q
<1>5. /\ k \in Seq(Transition) /\ Len(k) = n + m
      /\ \A i \in 1 .. n + m : k[i] = IF i <= n THEN h[i] ELSE T[i - n]
  <2>1. h \in Seq(Transition) /\ T \in Seq(Transition)
    BY <1>1, <1>4
  <2>2. /\ h \o T \in Seq(Transition) /\ Len(h \o T) = Len(h) + Len(T)
        /\ \A i \in 1 .. Len(h) + Len(T) :
             (h \o T)[i] = IF i <= Len(h) THEN h[i] ELSE T[i - Len(h)]
    BY <2>1, ConcatProperties
  <2> QED
    BY <1>4, <2>2
<1> HIDE DEF k
<1>6a. \A i \in 1 .. n : k[i] = h[i]
  <2> SUFFICES ASSUME NEW i \in 1 .. n PROVE k[i] = h[i]
    OBVIOUS
  <2>1. i \in 1 .. n + m /\ i <= n
    BY <1>1
  <2> QED
    BY <1>5, <2>1
<1>6b. \A i \in 1 .. n + 1 : From(k, i) = From(h, i)
  <2> SUFFICES ASSUME NEW i \in 1 .. n + 1 PROVE From(k, i) = From(h, i)
    OBVIOUS
  <2>1. i = 1 \/ i - 1 \in 1 .. n
    BY <1>1
  <2> QED
    BY <1>6a, <2>1 DEF From
<1>6. \A i \in 1 .. n : k[i] = h[i] /\ From(k, i) = From(h, i)
  BY <1>1, <1>6a, <1>6b
<1>7. From(k, n + 1) = row.status
  <2>1. n + 1 \in 1 .. n + 1
    BY <1>1
  <2> QED
    BY <1>6b, <2>1 DEF Tells
<1>8. ASSUME NEW i \in 1 .. m
      PROVE  /\ k[n + i] = T[i] /\ k[n + i].to = path[i] /\ k[n + i].seq = n + i
             /\ From(k, n + i) = IF i = 1 THEN row.status ELSE path[i - 1]
  <2>1. n + i \in 1 .. n + m /\ ~ (n + i <= n) /\ n + i - n = i
    BY <1>1
  <2>2. k[n + i] = T[i]
    BY <1>5, <2>1
  <2>3. CASE i = 1
    <3>1. From(k, n + i) = row.status
      BY <1>7, <2>3
    <3> QED
      BY <1>3, <2>2, <2>3, <3>1
  <2>4. CASE i # 1
    <3>1. i - 1 \in 1 .. m /\ n + (i - 1) \in 1 .. n + m /\ ~ (n + (i - 1) <= n)
          /\ n + (i - 1) - n = i - 1 /\ n + i - 1 = n + (i - 1) /\ n + i # 1
      BY <1>1, <2>4
    <3>2. k[n + (i - 1)] = T[i - 1]
      BY <1>5, <3>1
    <3>3. T[i - 1].to = path[i - 1]
      BY <1>3, <3>1
    <3> QED
      BY <1>3, <2>2, <2>4, <3>1, <3>2, <3>3 DEF From
  <2> QED
    BY <2>3, <2>4
<1>9. ASSUME NEW i \in 1 .. n + m
      PROVE  k[i].seq = i /\ k[i].from = From(k, i) /\ <<From(k, i), k[i].to>> \in Edges
  <2>1. CASE i <= n
    <3>1. i \in 1 .. n
      BY <1>1, <2>1
    <3> QED
      BY <1>6, <3>1 DEF Tells
  <2>2. CASE i > n
    <3>1. PICK j \in 1 .. m : i = n + j
      <4>1. i - n \in 1 .. m /\ i = n + (i - n)
        BY <1>1, <2>2
      <4> QED
        BY <4>1
    <3>2. <<IF j = 1 THEN row.status ELSE path[j - 1], path[j]>> \in Edges
      <4>1. j = 1 \/ j \in 2 .. m
        BY <1>1
      <4>2. \A e \in 2 .. m : <<path[e - 1], path[e]>> \in Edges
        OBVIOUS
      <4>3. CASE j = 1
        BY <4>3, Zenon
      <4>4. CASE j \in 2 .. m
        <5>1. j # 1
          BY <1>1, <4>4
        <5>2. <<path[j - 1], path[j]>> \in Edges
          BY <4>2, <4>4
        <5> QED
          BY <5>1, <5>2, Zenon
      <4> QED
        BY <4>1, <4>3, <4>4
    <3>3. k[i] = T[j] /\ From(k, i) = (IF j = 1 THEN row.status ELSE path[j - 1])
      BY <1>8, <3>1
    <3>4. k[i].to = path[j] /\ k[i].seq = i /\ k[i].from = From(k, i)
      BY <1>3, <3>1, <3>3
    <3>5. <<From(k, i), k[i].to>> \in Edges
      BY <3>2, <3>3, <3>4, Zenon
    <3> QED
      BY <3>4, <3>5
  <2> QED
    BY <1>1, <2>1, <2>2
<1>10. q \in RunRow /\ q.status = From(k, n + m + 1) /\ q.version = n + m
  <2>1. m \in 1 .. m /\ n + m + 1 # 1 /\ n + m + 1 - 1 = n + m
    BY <1>1
  <2>2. From(k, n + m + 1) = path[m]
    BY <1>8, <2>1 DEF From
  <2> QED
    BY <1>1, <1>2, <2>1, <2>2 DEF RunRow, AnyStatus, q
<1>11. ASSUME NEW s
       PROVE  Reached(k, s) <=> (Reached(h, s) \/ \E i \in 1 .. m : path[i] = s)
  <2>1. ASSUME NEW i \in 1 .. n + m, k[i].to = s
        PROVE  Reached(h, s) \/ \E j \in 1 .. m : path[j] = s
    <3>1. CASE i <= n
      <4>1. i \in 1 .. n
        BY <1>1, <3>1
      <4> QED
        BY <1>6, <2>1, <4>1 DEF Reached
    <3>2. CASE i > n
      <4>1. i - n \in 1 .. m /\ i = n + (i - n)
        BY <1>1, <3>2
      <4> QED
        BY <1>8, <2>1, <4>1
    <3> QED
      BY <1>1, <3>1, <3>2
  <2>2. ASSUME Reached(h, s) PROVE Reached(k, s)
    <3>1. PICK i \in 1 .. n : h[i].to = s
      BY <2>2 DEF Reached
    <3>2. i \in 1 .. n + m
      BY <1>1
    <3> QED
      BY <1>5, <1>6, <3>1, <3>2 DEF Reached
  <2>3. ASSUME NEW i \in 1 .. m, path[i] = s PROVE Reached(k, s)
    <3>1. n + i \in 1 .. n + m
      BY <1>1
    <3> QED
      BY <1>5, <1>8, <2>3, <3>1 DEF Reached
  <2> QED
    BY <1>5, <2>1, <2>2, <2>3 DEF Reached
<1>12. Reached(k, "running") <=> q.session
  BY <1>11 DEF Tells, q
<1>13. Tells(q, k)
  BY <1>5, <1>9, <1>10, <1>12 DEF Tells
<1> QED
  BY <1>11, <1>13 DEF k, q, T, Passed, PassedRow

\* What lies between two statuses of the lifecycle.
LEMMA PathToIs ==
  ASSUME NEW r, NEW a \in 1 .. 6, NEW b \in 1 .. 6, a < b, run[r].status = Lifecycle[a]
  PROVE  LET path == PathTo(r, Lifecycle[b])
         IN  /\ path \in Seq(Statuses) /\ Len(path) = b - a
             /\ \A i \in 1 .. b - a : path[i] = Lifecycle[a + i] /\ a + i \in 1 .. 6
             /\ <<run[r].status, path[1]>> \in Edges
             /\ \A i \in 2 .. Len(path) : <<path[i - 1], path[i]>> \in Edges
<1> DEFINE path == PathTo(r, Lifecycle[b])
<1>1. path = SubSeq(Lifecycle, a + 1, b)
  BY LifecycleIs DEF PathTo
<1>2. \A i \in a + 1 .. b : Lifecycle[i] \in Statuses
  BY LifecycleIs DEF Statuses
<1> HIDE DEF path
<1>3. /\ path \in Seq(Statuses) /\ Len(path) = b - a
      /\ \A i \in 1 .. b - (a + 1) + 1 : path[i] = Lifecycle[(a + 1) + i - 1]
  <2>1. a + 1 \in Int /\ b \in Int /\ a + 1 <= b /\ b - (a + 1) + 1 = b - a
    OBVIOUS
  <2> QED
    BY <1>1, <1>2, <2>1, SubSeqProperties
<1>4. ASSUME NEW i \in 1 .. b - a PROVE path[i] = Lifecycle[a + i] /\ a + i \in 1 .. 6
  <2>1. i \in 1 .. b - (a + 1) + 1 /\ (a + 1) + i - 1 = a + i /\ a + i \in 1 .. 6
    OBVIOUS
  <2> QED
    BY <1>3, <2>1
<1>5. <<run[r].status, path[1]>> \in Edges
  <2>1. 1 \in 1 .. b - a /\ a \in 1 .. 5
    OBVIOUS
  <2> QED
    BY <1>4, <2>1, EdgesAre
<1>6. ASSUME NEW i \in 2 .. Len(path) PROVE <<path[i - 1], path[i]>> \in Edges
  <2>1. i \in 1 .. b - a /\ i - 1 \in 1 .. b - a /\ a + (i - 1) \in 1 .. 5
        /\ a + i = (a + (i - 1)) + 1
    BY <1>3
  <2> QED
    BY <1>4, <2>1, EdgesAre
<1> QED
  BY <1>3, <1>4, <1>5, <1>6 DEF path

LEMMA BetweenIs ==
  ASSUME NEW r, NEW a \in 1 .. 6, NEW b \in 1 .. 6, Between(r, Lifecycle[a], Lifecycle[b])
  PROVE  \E i \in a .. b : run[r].status = Lifecycle[i]
  BY LifecycleIs DEF Between

\* A history has one confirmation at most, after which a run can only fail or be cancelled.
LEMMA ConfirmedOnce ==
  ASSUME NEW row, NEW h, Tells(row, h)
  PROVE  /\ \A i, j \in 1 .. Len(h) : h[i].to = "confirmed" /\ h[j].to = "confirmed" => i = j
         /\ Reached(h, "confirmed") => row.status \in {"confirmed", "failed", "cancelled"}
         /\ row.status = "confirmed" => Reached(h, "confirmed")
         /\ row.status = "none" => row.version = 0 /\ ~ row.session /\ Len(h) = 0
<1> DEFINE n == Len(h)
<1>1. /\ n \in Nat /\ row.status = From(h, n + 1)
      /\ \A i \in 1 .. n : <<From(h, i), h[i].to>> \in Edges
  BY DEF Tells
<1>2. \A i \in 1 .. n : From(h, i + 1) = h[i].to
  BY <1>1 DEF From
<1>3. ASSUME NEW i \in 1 .. n, h[i].to = "confirmed"
      PROVE  /\ i = n \/ i = n - 1
             /\ i = n - 1 => h[n].to \in {"failed", "cancelled"}
  <2>1. ASSUME i < n PROVE i = n - 1 /\ h[n].to \in {"failed", "cancelled"}
    <3>1. i + 1 \in 1 .. n
      BY <1>1, <2>1
    <3>2. h[i + 1].to \in {"failed", "cancelled"}
      <4>1. From(h, i + 1) = "confirmed" /\ <<From(h, i + 1), h[i + 1].to>> \in Edges
        BY <1>1, <1>2, <1>3, <3>1
      <4> QED
        BY <4>1, EdgesAre
    <3>3. ASSUME i + 1 < n PROVE FALSE
      <4>1. i + 2 \in 1 .. n /\ i + 2 = (i + 1) + 1
        BY <1>1, <3>3
      <4>2. From(h, i + 2) \in {"failed", "cancelled"}
        BY <1>2, <3>1, <3>2, <4>1
      <4>3. From(h, i + 2) \in Nonterminal \cup {"none"}
        <5>1. <<From(h, i + 2), h[i + 2].to>> \in Edges
          BY <1>1, <4>1
        <5> QED
          BY <5>1, EdgesAre
      <4> QED
        BY <4>2, <4>3, EndsAreNoStage
    <3>4. i + 1 = n
      BY <1>1, <2>1, <3>3
    <3> QED
      BY <1>1, <3>2, <3>4
  <2> QED
    BY <1>1, <2>1
<1>4. \A i, j \in 1 .. n : h[i].to = "confirmed" /\ h[j].to = "confirmed" => i = j
  BY <1>1, <1>3
<1>5. ASSUME Reached(h, "confirmed") PROVE row.status \in {"confirmed", "failed", "cancelled"}
  <2>1. PICK i \in 1 .. n : h[i].to = "confirmed"
    BY <1>5 DEF Reached
  <2>2. h[n].to \in {"confirmed", "failed", "cancelled"} /\ n \in 1 .. n
    BY <1>1, <1>3, <2>1
  <2> QED
    BY <1>1, <1>2, <2>2
<1>6. ASSUME row.status = "confirmed" PROVE Reached(h, "confirmed")
  <2>1. n # 0
    BY <1>1, <1>6 DEF From
  <2>2. n \in 1 .. n
    BY <1>1, <2>1
  <2> QED
    BY <1>1, <1>2, <1>6, <2>2 DEF Reached
<1>7. ASSUME row.status = "none" PROVE row.version = 0 /\ ~ row.session /\ n = 0
  <2>1. ASSUME n # 0 PROVE FALSE
    <3>1. n \in 1 .. n
      BY <1>1, <2>1
    <3>2. h[n].to = "none"
      BY <1>1, <1>2, <1>7, <3>1
    <3>3. "none" \in Statuses
      BY <1>1, <3>1, <3>2, EdgesAre
    <3> QED
      BY <3>3, EndsAreNoStage DEF Statuses
  <2> QED
    BY <2>1 DEF Tells, Reached
<1> QED
  BY <1>4, <1>5, <1>6, <1>7

-----------------------------------------------------------------------------
(* One run moves.                                                          *)

Moved(r) ==
  /\ RunInv'
  /\ run[r].status \notin {"failed", "cancelled"} /\ run'[r].status \in Statuses
  /\ \A o \in Runs \ {r} : run'[o] = run[o] /\ history'[o] = history[o]
  /\ Reached(history'[r], "confirmed") <=>
       (Reached(history[r], "confirmed") \/ run'[r].status = "confirmed")

LEMMA PassesMoves ==
  ASSUME RunInv, NEW r \in Runs, NEW path \in Seq(Statuses), Len(path) > 0,
         <<run[r].status, path[1]>> \in Edges,
         \A i \in 2 .. Len(path) : <<path[i - 1], path[i]>> \in Edges,
         NEW session \in BOOLEAN,
         session <=> (run[r].session \/ \E i \in 1 .. Len(path) : path[i] = "running"),
         \A i \in 1 .. Len(path) : path[i] = "confirmed" => i = Len(path),
         Passes(r, path, session)
  PROVE  Moved(r) /\ run'[r].status = path[Len(path)]
<1> DEFINE row == run[r]
           h == history[r]
           q == PassedRow(row, path, session)
           k == h \o Passed(row, path)
<1>1. Tells(row, h) /\ run \in [Runs -> RunRow] /\ history \in [Runs -> Seq(Transition)]
  BY DEF RunInv
<1>2. /\ Tells(q, k)
      /\ \A s : Reached(k, s) <=> (Reached(h, s) \/ \E i \in 1 .. Len(path) : path[i] = s)
  BY <1>1, PathTells
<1>3. run' = [run EXCEPT ![r] = q]
  BY DEF Passes, PassedRow
<1>4. history' = [history EXCEPT ![r] = k]
  BY <1>1 DEF Passes, Passed
<1>5. q.status = path[Len(path)] /\ path[Len(path)] \in Statuses
  BY LenProperties DEF PassedRow
<1> HIDE DEF k, q
<1>6. q \in RunRow /\ k \in Seq(Transition)
  BY <1>2 DEF Tells
<1>7. run'[r] = q /\ history'[r] = k
  BY <1>1, <1>3, <1>4
<1>8. \A o \in Runs \ {r} : run'[o] = run[o] /\ history'[o] = history[o]
  BY <1>1, <1>3, <1>4
<1>9. RunInv'
  <2>1. run' \in [Runs -> RunRow] /\ history' \in [Runs -> Seq(Transition)]
    BY <1>1, <1>3, <1>4, <1>6
  <2>2. \A o \in Runs : Tells(run'[o], history'[o])
    BY <1>2, <1>7, <1>8 DEF RunInv
  <2> QED
    BY <2>1, <2>2 DEF RunInv
<1>10. run[r].status \notin {"failed", "cancelled"}
  BY EdgesAre, EndsAreNoStage
<1>11. Reached(k, "confirmed") <=> (Reached(h, "confirmed") \/ q.status = "confirmed")
  <2>1. Len(path) \in 1 .. Len(path)
    BY LenProperties
  <2> QED
    BY <1>2, <1>5, <2>1
<1> QED
  BY <1>5, <1>7, <1>8, <1>9, <1>10, <1>11 DEF Moved

\* The run passes from one status of the lifecycle to a later one, once it was running.
LEMMA PathMoves ==
  ASSUME RunInv, NEW r \in Runs, NEW a \in 3 .. 6, NEW b \in 1 .. 6, a < b,
         run[r].status = Lifecycle[a], Passes(r, PathTo(r, Lifecycle[b]), run[r].session)
  PROVE  Moved(r) /\ run'[r].status = Lifecycle[b]
<1> DEFINE path == PathTo(r, Lifecycle[b])
<1>1. /\ path \in Seq(Statuses) /\ Len(path) = b - a
      /\ \A i \in 1 .. b - a : path[i] = Lifecycle[a + i] /\ a + i \in 1 .. 6
      /\ <<run[r].status, path[1]>> \in Edges
      /\ \A i \in 2 .. Len(path) : <<path[i - 1], path[i]>> \in Edges
  <2>1. a \in 1 .. 6
    OBVIOUS
  <2> QED
    BY <2>1, PathToIs
<1> HIDE DEF path
<1>2. \A i \in 1 .. Len(path) : path[i] # "running" /\ (path[i] = "confirmed" => i = Len(path))
  <2> SUFFICES ASSUME NEW i \in 1 .. Len(path)
               PROVE  path[i] # "running" /\ (path[i] = "confirmed" => i = Len(path))
    OBVIOUS
  <2>1. i \in 1 .. b - a /\ a + i # 3 /\ 3 \in 1 .. 6 /\ 6 \in 1 .. 6
    BY <1>1
  <2>2. path[i] # "running"
    BY <1>1, <2>1, LifecycleIs
  <2>3. path[i] = "confirmed" => a + i = 6
    BY <1>1, <2>1, LifecycleIs
  <2> QED
    BY <1>1, <2>1, <2>2, <2>3
<1>3. run[r].session \in BOOLEAN
  BY DEF RunInv, RunRow
<1>4. Moved(r) /\ run'[r].status = path[Len(path)]
  <2>1. Passes(r, path, run[r].session) /\ Len(path) > 0
    BY <1>1 DEF path
  <2>2. run[r].session <=> (run[r].session \/ \E i \in 1 .. Len(path) : path[i] = "running")
    BY <1>2
  <2>3. /\ path \in Seq(Statuses) /\ <<run[r].status, path[1]>> \in Edges
        /\ \A i \in 2 .. Len(path) : <<path[i - 1], path[i]>> \in Edges
    BY <1>1
  <2>4. \A i \in 1 .. Len(path) : path[i] = "confirmed" => i = Len(path)
    BY <1>2
  <2> QED
    BY <1>3, <2>1, <2>2, <2>3, <2>4, PassesMoves
<1>5. Len(path) \in 1 .. b - a /\ a + Len(path) = b
  BY <1>1
<1> QED
  BY <1>1, <1>4, <1>5

\* One status: a sequence of one.
LEMMA OneMoves ==
  ASSUME RunInv, NEW r \in Runs, NEW s \in Statuses, s # "confirmed",
         <<run[r].status, s>> \in Edges, NEW session \in BOOLEAN,
         session <=> (run[r].session \/ s = "running"),
         Passes(r, <<s>>, session)
  PROVE  Moved(r) /\ run'[r].status = s
<1> DEFINE path == <<s>>
<1>1. path \in Seq(Statuses) /\ Len(path) = 1 /\ path[1] = s
  OBVIOUS
<1> HIDE DEF path
<1>2. \A i \in 1 .. Len(path) : path[i] = s
  BY <1>1
<1>3. \A i \in 2 .. Len(path) : <<path[i - 1], path[i]>> \in Edges
  BY <1>1
<1>4. session <=> (run[r].session \/ \E i \in 1 .. Len(path) : path[i] = "running")
  BY <1>1, <1>2
<1>5. Passes(r, path, session)
  BY DEF path
<1>6. \A i \in 1 .. Len(path) : path[i] = "confirmed" => i = Len(path)
  BY <1>2
<1>7. Len(path) > 0 /\ <<run[r].status, path[1]>> \in Edges
  BY <1>1
<1>8. path \in Seq(Statuses) /\ path[Len(path)] = s
  BY <1>1
<1>9. Moved(r) /\ run'[r].status = path[Len(path)]
  BY <1>3, <1>4, <1>5, <1>6, <1>7, <1>8, PassesMoves
<1> QED
  BY <1>8, <1>9

LEMMA QueueMoves ==
  ASSUME RunInv, NEW r \in Runs, Queue(r)
  PROVE  Moved(r) /\ run[r].status = "none" /\ run'[r].status = "queued"
<1> DEFINE path == <<"preflight", "queued">>
<1>1. /\ Len(path) = 2 /\ path[1] = "preflight" /\ path[2] = "queued"
      /\ path \in Seq({"preflight", "queued"})
  OBVIOUS
<1>2. "preflight" \in Statuses /\ "queued" \in Statuses /\ <<"preflight", "queued">> \in Edges
  <2>1. 1 \in 1 .. 5 /\ 1 \in 1 .. 6 /\ 2 \in 1 .. 6 /\ 1 + 1 = 2
    OBVIOUS
  <2> QED
    BY <2>1, LifecycleIs, EdgesAre DEF Statuses
<1>3. path \in Seq(Statuses)
  BY <1>1, <1>2
<1>4. run[r].status = "none" /\ ~ run[r].session
  BY ConfirmedOnce DEF Queue, RunInv
<1>5. Passes(r, path, FALSE)
  BY DEF Queue
<1> HIDE DEF path
<1>6. \A i \in 1 .. Len(path) : i = 1 \/ i = 2
  BY <1>1
<1>7. \A i \in 2 .. Len(path) : <<path[i - 1], path[i]>> \in Edges
  <2> SUFFICES ASSUME NEW i \in 2 .. Len(path) PROVE <<path[i - 1], path[i]>> \in Edges
    OBVIOUS
  <2>1. i = 2 /\ i - 1 = 1
    BY <1>1
  <2> QED
    BY <1>1, <1>2, <2>1
<1>8. \A i \in 1 .. Len(path) : path[i] # "running" /\ path[i] # "confirmed"
  BY <1>1, <1>6
<1>9. <<run[r].status, path[1]>> \in Edges
  BY <1>1, <1>4, EdgesAre
<1> DEFINE session == FALSE
<1>12. session \in BOOLEAN /\ Passes(r, path, session)
  BY <1>5
<1>13. session <=> (run[r].session \/ \E i \in 1 .. Len(path) : path[i] = "running")
  BY <1>4, <1>8
<1>14. \A i \in 1 .. Len(path) : path[i] = "confirmed" => i = Len(path)
  BY <1>8
<1> HIDE DEF session
<1>10. Moved(r) /\ run'[r].status = path[Len(path)]
  <2>1. Len(path) > 0
    BY <1>1
  <2> QED
    BY <1>3, <1>7, <1>9, <1>12, <1>13, <1>14, <2>1, PassesMoves
<1>11. path[Len(path)] = "queued"
  BY <1>1
<1> QED
  BY <1>4, <1>10, <1>11

\* The runs move on their own: activation, output, failure, cancellation.
LEMMA RunNextMoves ==
  ASSUME RunInv, RunNext
  PROVE  \E r \in Runs : /\ Moved(r) /\ run[r].status \in Nonterminal
                         /\ run'[r].status # "confirmed"
<1>1. PICK r \in Runs : Activate(r) \/ OutputReady(r) \/ Fail(r) \/ Cancel(r)
  BY DEF RunNext
<1>2. run[r].session \in BOOLEAN
  BY DEF RunInv, RunRow
<1>3. 2 \in 1 .. 5 /\ 2 + 1 = 3 /\ {2, 3, 4, 5, 6} \subseteq 1 .. 6
  OBVIOUS
<1>4. CASE Activate(r)
  <2>1. run[r].status = Lifecycle[2] /\ "running" = Lifecycle[3] /\ ~ run[r].session
    BY <1>4, LifecycleIs DEF Activate
  <2>2. <<run[r].status, "running">> \in Edges /\ "running" \in Statuses
        /\ run[r].status \in Nonterminal
    BY <1>3, <2>1, LifecycleIs, EdgesAre DEF Statuses
  <2>3. Passes(r, <<"running">>, TRUE)
    BY <1>4 DEF Activate
  <2>4. Moved(r) /\ run'[r].status = "running"
    BY <2>1, <2>2, <2>3, OneMoves
  <2> QED
    BY <2>2, <2>4
<1>5. CASE OutputReady(r)
  <2>1. Between(r, Lifecycle[3], Lifecycle[4]) /\ "pending_review" = Lifecycle[5]
    BY <1>5, LifecycleIs DEF OutputReady
  <2>2. PICK a \in 3 .. 4 : run[r].status = Lifecycle[a]
    BY <1>3, <2>1, BetweenIs
  <2>3. Passes(r, PathTo(r, Lifecycle[5]), run[r].session)
    BY <1>5, <2>1 DEF OutputReady
  <2>4. a \in 3 .. 6 /\ a \in 1 .. 6 /\ 5 \in 1 .. 6 /\ a < 5
    OBVIOUS
  <2>5. Moved(r) /\ run'[r].status = "pending_review"
    BY <2>1, <2>2, <2>3, <2>4, PathMoves
  <2> QED
    BY <2>2, <2>4, <2>5, LifecycleIs
<1>6. ASSUME NEW s \in {"failed", "cancelled"}, run[r].status \in Nonterminal,
             Passes(r, <<s>>, run[r].session)
      PROVE  Moved(r) /\ run'[r].status = s
  <2>1. s \in Statuses /\ <<run[r].status, s>> \in Edges /\ s # "confirmed" /\ s # "running"
    BY <1>6, EdgesAre DEF Statuses
  <2> QED
    BY <1>2, <1>6, <2>1, OneMoves
<1>7. CASE Fail(r)
  BY <1>6, <1>7 DEF Fail
<1>8. CASE Cancel(r)
  BY <1>6, <1>8 DEF Cancel
<1> QED
  BY <1>1, <1>4, <1>5, <1>7, <1>8

LEMMA AdvanceMoves ==
  ASSUME RunInv, NEW r \in Runs, Confirmable(r), AdvanceToConfirmed(r),
         run[r].status # "confirmed"
  PROVE  Moved(r) /\ run'[r].status = "confirmed"
<1>1. Between(r, Lifecycle[3], Lifecycle[6]) /\ "confirmed" = Lifecycle[6]
  BY LifecycleIs DEF Confirmable
<1>2. 3 \in 1 .. 6 /\ 6 \in 1 .. 6
  OBVIOUS
<1>3. PICK a \in 3 .. 6 : run[r].status = Lifecycle[a]
  BY <1>1, <1>2, BetweenIs
<1>4. a # 6
  BY <1>1, <1>3
<1>5. a < 6 /\ Passes(r, PathTo(r, Lifecycle[6]), run[r].session)
  BY <1>1, <1>4 DEF AdvanceToConfirmed
<1> QED
  BY <1>1, <1>2, <1>3, <1>5, PathMoves

LEMMA ConfirmableIsOpen ==
  ASSUME NEW r, Confirmable(r)
  PROVE  run[r].status \notin {"failed", "cancelled"}
<1>1. Between(r, Lifecycle[3], Lifecycle[6])
  BY LifecycleIs DEF Confirmable
<1>2. 3 \in 1 .. 6 /\ 6 \in 1 .. 6
  OBVIOUS
<1>3. PICK a \in 3 .. 6 : run[r].status = Lifecycle[a]
  BY <1>1, <1>2, BetweenIs
<1> QED
  BY <1>3, LifecycleIs, EndsAreNoStage

LEMMA RunInvSuffices == RunInv => HistoryTellsRun
<1> SUFFICES ASSUME RunInv PROVE HistoryTellsRun
  OBVIOUS
<1>1. ASSUME NEW r \in Runs
      PROVE  LET h == history[r]
             IN  /\ Len(h) = run[r].version
                 /\ \A i \in DOMAIN h :
                      /\ h[i].seq = i
                      /\ h[i].from = From(h, i)
                      /\ <<h[i].from, h[i].to>> \in Edges
                 /\ run[r].status = From(h, Len(h) + 1)
                 /\ (\E i \in DOMAIN h : h[i].to = "running") <=> run[r].session
  <2>1. Tells(run[r], history[r]) /\ DOMAIN history[r] = 1 .. Len(history[r])
    BY LenProperties DEF RunInv
  <2>2. \A i \in 1 .. Len(history[r]) :
           /\ history[r][i].seq = i /\ history[r][i].from = From(history[r], i)
           /\ <<From(history[r], i), history[r][i].to>> \in Edges
    BY <2>1 DEF Tells
  <2>3. (\E i \in 1 .. Len(history[r]) : history[r][i].to = "running") <=> run[r].session
    BY <2>1 DEF Tells, Reached
  <2> QED
    <3>1. \A i \in 1 .. Len(history[r]) : <<history[r][i].from, history[r][i].to>> \in Edges
      BY <2>2
    <3>2. Len(history[r]) = run[r].version /\ run[r].status = From(history[r], Len(history[r]) + 1)
      BY <2>1 DEF Tells
    <3> QED
      BY <2>1, <2>2, <2>3, <3>1, <3>2, Zenon
<1> QED
  BY <1>1, Zenon DEF HistoryTellsRun, From

-----------------------------------------------------------------------------
(* Answers.                                                                *)

ConfirmInv ==
  /\ RunInv /\ ConfirmTypeOK
  /\ \A c \in Commands : c \in Accepted <=> msg[c].state # "absent"
  /\ \A c, d \in Accepted : RunOf[c] = RunOf[d] => c = d
  /\ \A r \in Runs : Reached(history[r], "confirmed") <=> \E c \in Accepted : RunOf[c] = r

\* The body of LateClaimsAreFenced.
Fenced ==
  \A c \in Commands :
    /\ turns'[c] \subseteq turns[c] \cup {Latest(c)}
    /\ msg[c].state = "dispatched" => (msg'[c] = msg[c] /\ turns'[c] = turns[c])
    /\ msg'[c].claim # msg[c].claim => (msg[c].state = "pending" \/ ~msg[c].live)

LEMMA AcceptedIsCommands ==
  ASSUME ConfirmTypeOK PROVE Accepted \subseteq Commands
<1>1. order \in Seq(Commands) /\ DOMAIN order = 1 .. Len(order)
  BY LenProperties DEF ConfirmTypeOK
<1> QED
  BY <1>1, ElementOfSeq DEF Accepted

LEMMA ConfirmInitSound == RunsQueued /\ ConfirmInit => ConfirmInv
<1> SUFFICES ASSUME RunsQueued, ConfirmInit PROVE ConfirmInv
  OBVIOUS
<1>1. ConfirmTypeOK
  BY DEF ConfirmInit, ConfirmTypeOK, NoMsg
<1>2. Accepted = {}
  BY DEF ConfirmInit, Accepted
<1> DEFINE q == [status |-> "queued", version |-> 2, session |-> FALSE]
           a == [seq |-> 1, from |-> "none", to |-> "preflight"]
           b == [seq |-> 2, from |-> "preflight", to |-> "queued"]
           h == <<a, b>>
<1>3. /\ "preflight" \in Statuses /\ "queued" \in Statuses
      /\ <<"preflight", "queued">> \in Edges /\ <<"none", "preflight">> \in Edges
  <2>1. 1 \in 1 .. 5 /\ 1 \in 1 .. 6 /\ 2 \in 1 .. 6 /\ 1 + 1 = 2
    OBVIOUS
  <2> QED
    BY <2>1, LifecycleIs, EdgesAre DEF Statuses
<1>4. /\ q \in RunRow /\ q.status = "queued" /\ q.version = 2 /\ ~ q.session
      /\ a \in Transition /\ a.seq = 1 /\ a.from = "none" /\ a.to = "preflight"
      /\ b \in Transition /\ b.seq = 2 /\ b.from = "preflight" /\ b.to = "queued"
  BY <1>3 DEF RunRow, Transition, AnyStatus
<1> HIDE DEF a, b
<1>5. h \in Seq(Transition) /\ Len(h) = 2 /\ h[1] = a /\ h[2] = b
  BY <1>4
<1> HIDE DEF h, q
<1>6. From(h, 1) = "none" /\ From(h, 2) = "preflight" /\ From(h, 3) = "queued"
  BY <1>4, <1>5 DEF From
<1>7. \A i \in 1 .. Len(h) : i = 1 \/ i = 2
  BY <1>5
<1>8. ~ Reached(h, "running") /\ ~ Reached(h, "confirmed")
  BY <1>4, <1>5, <1>7 DEF Reached
<1>9. Tells(q, h)
  <2>1. \A i \in 1 .. Len(h) : /\ h[i].seq = i /\ h[i].from = From(h, i)
                               /\ <<From(h, i), h[i].to>> \in Edges
    BY <1>3, <1>4, <1>5, <1>6, <1>7
  <2>2. q.status = From(h, Len(h) + 1)
    BY <1>4, <1>5, <1>6
  <2> QED
    BY <1>4, <1>5, <1>8, <2>1, <2>2 DEF Tells
<1>10. run = [r \in Runs |-> q] /\ history = [r \in Runs |-> h]
  BY DEF RunsQueued, q, h, a, b
<1>11. RunInv /\ \A r \in Runs : ~ Reached(history[r], "confirmed")
  BY <1>4, <1>5, <1>8, <1>9, <1>10 DEF RunInv
<1> QED
  BY <1>1, <1>2, <1>11 DEF ConfirmInv, ConfirmInit, NoMsg

\* The messages change, and nothing is accepted.
LEMMA AnswersKept ==
  ASSUME ConfirmInv, UNCHANGED <<run, history, order>>, ConfirmTypeOK',
         \A c \in Commands : msg'[c].state = "absent" <=> msg[c].state = "absent"
  PROVE  ConfirmInv'
<1>1. Accepted' = Accepted
  BY DEF Accepted
<1>2. RunInv'
  BY DEF ConfirmInv, RunInv
<1> QED
  BY <1>1, <1>2, AcceptedIsCommands DEF ConfirmInv

\* The run of what was accepted is confirmed, or has ended since.
LEMMA AcceptedIsConfirmed ==
  ASSUME ConfirmInv, NEW c \in Accepted, Confirmable(RunOf[c]), AdvanceToConfirmed(RunOf[c])
  PROVE  UNCHANGED <<run, history>> /\ c \in Commands
<1>1. c \in Commands /\ RunOf[c] \in Runs
  BY AcceptedIsCommands, CommandsAnswerRuns DEF ConfirmInv
<1>2. Reached(history[RunOf[c]], "confirmed") /\ Tells(run[RunOf[c]], history[RunOf[c]])
  BY <1>1 DEF ConfirmInv, RunInv
<1>3. run[RunOf[c]].status = "confirmed"
  BY <1>2, ConfirmedOnce, ConfirmableIsOpen
<1> QED
  BY <1>1, <1>3 DEF AdvanceToConfirmed, runVars

LEMMA ClaimOneHolds ==
  ASSUME ConfirmInv, NEW x \in Claims, NEW c \in Accepted, Eligible(x, c), ClaimOne(x, c),
         grant' \in [Commands -> [Claims -> {"none", "live", "dead"}]]
  PROVE  ConfirmInv' /\ Fenced
<1>1. UNCHANGED <<run, history>> /\ c \in Commands
  BY AcceptedIsConfirmed DEF ClaimOne
<1> DEFINE q == [state |-> "dispatching", claim |-> x, live |-> TRUE]
<1>2. /\ msg' = [msg EXCEPT ![c] = q] /\ UNCHANGED <<order, turns>>
      /\ told' = [told EXCEPT ![c] = @ \cup {x}]
  BY DEF ClaimOne
<1>3. q \in [state : {"absent", "pending", "dispatching", "dispatched"},
             claim : Claims \cup {None}, live : BOOLEAN]
      /\ q.state = "dispatching" /\ q.claim = x
  OBVIOUS
<1> HIDE DEF q
<1>4. ConfirmTypeOK'
  BY <1>2, <1>3 DEF ConfirmInv, ConfirmTypeOK
<1>5. \A d \in Commands : msg'[d] = IF d = c THEN q ELSE msg[d]
  BY <1>1, <1>2 DEF ConfirmInv, ConfirmTypeOK
<1>6. msg[c].state # "absent"
  BY <1>1 DEF ConfirmInv
<1>7. ConfirmInv'
  BY <1>1, <1>2, <1>3, <1>4, <1>5, <1>6, AnswersKept
<1>8. Fenced
  <2>1. msg[c].state \in {"pending", "dispatching"}
        /\ (x # msg[c].claim => msg[c].state = "pending" \/ ~ msg[c].live)
    BY DEF Eligible, Holds
  <2> QED
    BY <1>2, <1>3, <1>5, <2>1 DEF Fenced
<1> QED
  BY <1>7, <1>8

LEMMA ScannedIsEligible ==
  ASSUME NEW x, NEW c, Scanned(x, c)
  PROVE  c \in Accepted /\ Eligible(x, c)
  BY DEF Scanned, LookedFor, Eligible, Holds

LEMMA SubmitHolds ==
  ASSUME ConfirmInv, NEW c \in Commands, Submit(c)
  PROVE  ConfirmInv' /\ Fenced
<1> DEFINE r == RunOf[c]
           q == [msg[c] EXCEPT !.state = "pending"]
<1>1. /\ msg[c].state = "absent" /\ AcceptedFor(r) = {} /\ Confirmable(r)
      /\ msg' = [msg EXCEPT ![c] = q] /\ order' = Append(order, c) /\ AdvanceToConfirmed(r)
      /\ UNCHANGED <<grant, told, turns>>
  BY DEF Submit, Answerable, ConfirmInv, ConfirmTypeOK
<1>2. r \in Runs /\ RunInv /\ ConfirmTypeOK
  BY CommandsAnswerRuns DEF ConfirmInv
<1>3. /\ q \in [state : {"absent", "pending", "dispatching", "dispatched"},
                claim : Claims \cup {None}, live : BOOLEAN]
      /\ q.state = "pending" /\ q.claim = msg[c].claim
  BY <1>2 DEF ConfirmTypeOK
<1> HIDE DEF q
<1>4. /\ order \in Seq(Commands) /\ order' \in Seq(Commands) /\ Len(order') = Len(order) + 1
      /\ \A i \in 1 .. Len(order) : order'[i] = order[i]
      /\ order'[Len(order) + 1] = c
  BY <1>1, <1>2, AppendProperties DEF ConfirmTypeOK
<1>5. Accepted' = Accepted \cup {c}
  <2>1. DOMAIN order = 1 .. Len(order) /\ DOMAIN order' = 1 .. Len(order) + 1 /\ Len(order) \in Nat
    BY <1>4, LenProperties
  <2>2. \A i \in 1 .. Len(order) + 1 : i \in 1 .. Len(order) \/ i = Len(order) + 1
    BY <2>1
  <2> QED
    BY <1>4, <2>1, <2>2 DEF Accepted
<1>6. ConfirmTypeOK'
  BY <1>1, <1>2, <1>3, <1>4 DEF ConfirmTypeOK
<1>7. ~ Reached(history[r], "confirmed")
  BY <1>1, <1>2 DEF AcceptedFor, ConfirmInv
<1>8. run[r].status # "confirmed"
  <2>1. Tells(run[r], history[r])
    BY <1>2 DEF RunInv
  <2> QED
    BY <1>7, <2>1, ConfirmedOnce
<1>9. Moved(r) /\ run'[r].status = "confirmed"
  BY <1>1, <1>2, <1>8, AdvanceMoves
<1>10. \A s \in Runs : Reached(history'[s], "confirmed")
                         <=> (Reached(history[s], "confirmed") \/ s = r)
  BY <1>9 DEF Moved
<1>11. \A d \in Commands : msg'[d] = IF d = c THEN q ELSE msg[d]
  BY <1>1, <1>2 DEF ConfirmTypeOK
<1>12. \A d, e \in Accepted' : RunOf[d] = RunOf[e] => d = e
  BY <1>1, <1>5 DEF ConfirmInv, AcceptedFor
<1>13. \A d \in Commands : d \in Accepted' <=> msg'[d].state # "absent"
  BY <1>3, <1>5, <1>11 DEF ConfirmInv
<1>14. \A s \in Runs : Reached(history'[s], "confirmed") <=> \E d \in Accepted' : RunOf[d] = s
  BY <1>5, <1>10 DEF ConfirmInv
<1>15. ConfirmInv'
  BY <1>6, <1>9, <1>12, <1>13, <1>14 DEF ConfirmInv, Moved
<1>16. Fenced
  BY <1>1, <1>3, <1>11 DEF Fenced
<1> QED
  BY <1>15, <1>16

\* The message of a claim changes, and not its claim.
LEMMA MessageKept ==
  ASSUME ConfirmInv, NEW c \in Commands, msg[c].state = "dispatching",
         NEW q \in [state : {"absent", "pending", "dispatching", "dispatched"},
                    claim : Claims \cup {None}, live : BOOLEAN],
         q.state # "absent", q.claim = msg[c].claim,
         msg' = [msg EXCEPT ![c] = q], UNCHANGED <<run, history, order, grant, told, turns>>
  PROVE  ConfirmInv' /\ Fenced
<1>1. ConfirmTypeOK
  BY DEF ConfirmInv
<1>2. ConfirmTypeOK'
  BY <1>1 DEF ConfirmTypeOK
<1>3. \A d \in Commands : msg'[d] = IF d = c THEN q ELSE msg[d]
  BY <1>1 DEF ConfirmTypeOK
<1>4. ConfirmInv'
  BY <1>2, <1>3, AnswersKept
<1> QED
  BY <1>3, <1>4 DEF Fenced

LEMMA LapseHolds ==
  ASSUME ConfirmInv, NEW c \in Commands, LeaseLapses(c)
  PROVE  ConfirmInv' /\ Fenced
<1> DEFINE q == [msg[c] EXCEPT !.live = FALSE]
<1>1. /\ q \in [state : {"absent", "pending", "dispatching", "dispatched"},
                claim : Claims \cup {None}, live : BOOLEAN]
      /\ q.state = msg[c].state /\ q.claim = msg[c].claim
  <2>1. msg[c] \in [state : {"absent", "pending", "dispatching", "dispatched"},
                    claim : Claims \cup {None}, live : BOOLEAN]
    BY DEF ConfirmInv, ConfirmTypeOK
  <2> QED
    BY <2>1
<1>2. msg' = [msg EXCEPT ![c] = q]
  BY DEF ConfirmInv, ConfirmTypeOK, LeaseLapses
<1> HIDE DEF q
<1> QED
  BY <1>1, <1>2, MessageKept DEF LeaseLapses, runVars

\* A holder renews or acknowledges, its turn is recorded, its grant ends.
LEMMA HolderHolds ==
  ASSUME ConfirmInv, NEW c \in Commands, NEW x \in Claims,
         \/ Lease(x, c) \/ Ack(x, c) \/ GrantEnds(x, c)
         \/ \E delegated \in BOOLEAN : PersistTurn(x, c, delegated)
  PROVE  ConfirmInv' /\ Fenced
<1>1. ConfirmTypeOK
  BY DEF ConfirmInv
<1>4. CASE Lease(x, c)
  <2> DEFINE q == [msg[c] EXCEPT !.live = TRUE]
  <2>1. /\ q \in [state : {"absent", "pending", "dispatching", "dispatched"},
                  claim : Claims \cup {None}, live : BOOLEAN]
        /\ q.state = msg[c].state /\ q.claim = msg[c].claim
        /\ msg' = [msg EXCEPT ![c] = q]
    BY <1>1, <1>4 DEF ConfirmTypeOK, Lease
  <2> HIDE DEF q
  <2> QED
    BY <1>4, <2>1, MessageKept DEF Lease, Holds, runVars
<1>5. CASE Ack(x, c)
  <2> DEFINE q == [state |-> "dispatched", claim |-> x, live |-> FALSE]
  <2>1. /\ q \in [state : {"absent", "pending", "dispatching", "dispatched"},
                  claim : Claims \cup {None}, live : BOOLEAN]
        /\ q.state = "dispatched" /\ q.claim = x /\ msg' = [msg EXCEPT ![c] = q]
    BY <1>5 DEF Ack
  <2> HIDE DEF q
  <2> QED
    BY <1>5, <2>1, MessageKept DEF Ack, Holds, runVars
<1>6. ASSUME UNCHANGED <<run, history, msg, order>>, ConfirmTypeOK',
             \A d \in Commands : /\ turns'[d] \subseteq turns[d] \cup {Latest(d)}
                                 /\ msg[d].state = "dispatched" => turns'[d] = turns[d]
      PROVE  ConfirmInv' /\ Fenced
  <2>1. ConfirmInv'
    BY <1>6, AnswersKept
  <2> QED
    BY <1>6, <2>1 DEF Fenced
<1>7. CASE GrantEnds(x, c)
  <2>1. ConfirmTypeOK' /\ UNCHANGED <<run, history, msg, order, turns>>
    BY <1>1, <1>7 DEF GrantEnds, ConfirmTypeOK, runVars
  <2> QED
    BY <1>6, <2>1
<1>8. ASSUME NEW delegated \in BOOLEAN, PersistTurn(x, c, delegated)
      PROVE  ConfirmInv' /\ Fenced
  <2>1. /\ turns' = [turns EXCEPT ![c] = @ \cup {x}]
        /\ UNCHANGED <<run, history, msg, order, grant, told>>
        /\ msg[c].state = "dispatching" /\ Latest(c) = x
    BY <1>8 DEF PersistTurn, TurnCounts, Holds, Latest, runVars
  <2>2. ConfirmTypeOK'
    BY <1>1, <2>1 DEF ConfirmTypeOK
  <2>3. \A d \in Commands : turns'[d] = IF d = c THEN turns[d] \cup {x} ELSE turns[d]
    BY <1>1, <2>1 DEF ConfirmTypeOK
  <2> QED
    BY <1>6, <2>1, <2>2, <2>3
<1> QED
  BY <1>4, <1>5, <1>7, <1>8

LEMMA ConfirmStepHolds == ConfirmInv /\ [ConfirmStep]_<<runVars, confirmVars>> =>
                            ConfirmInv' /\ [Fenced]_confirmVars
<1> SUFFICES ASSUME ConfirmInv, [ConfirmStep]_<<runVars, confirmVars>>
             PROVE  ConfirmInv' /\ [Fenced]_confirmVars
  OBVIOUS
<1>1. ConfirmTypeOK
  BY DEF ConfirmInv
<1>2. CASE UNCHANGED <<runVars, confirmVars>>
  <2>1. UNCHANGED <<run, history, msg, order, grant, told, turns>> /\ UNCHANGED confirmVars
    BY <1>2 DEF runVars, confirmVars
  <2>2. ConfirmTypeOK'
    BY <1>1, <2>1 DEF ConfirmTypeOK
  <2> QED
    BY <2>1, <2>2, AnswersKept
<1>3. CASE RunNext /\ UNCHANGED confirmVars
  <2>1. UNCHANGED <<msg, order, grant, told, turns>>
    BY <1>3 DEF confirmVars
  <2>2. PICK r \in Runs : Moved(r) /\ run'[r].status # "confirmed"
    BY <1>3, RunNextMoves DEF ConfirmInv
  <2>3. \A s \in Runs : Reached(history'[s], "confirmed") <=> Reached(history[s], "confirmed")
    BY <2>2 DEF Moved
  <2>4. Accepted' = Accepted /\ ConfirmTypeOK'
    BY <1>1, <2>1 DEF Accepted, ConfirmTypeOK
  <2>5. ConfirmInv'
    BY <2>1, <2>2, <2>3, <2>4 DEF ConfirmInv, Moved
  <2> QED
    BY <1>3, <2>5
<1>4. ASSUME NEW x \in Claims, NEW c \in Commands, Claim(x, c) \/ ClaimTurn(x, c)
                                                  \/ Scan(x, c) \/ ScanTurn(x, c)
      PROVE  ConfirmInv' /\ Fenced
  <2>1. c \in Accepted /\ Eligible(x, c) /\ ClaimOne(x, c)
    BY <1>4, ScannedIsEligible DEF Claim, ClaimTurn, Scan, ScanTurn, Candidate
  <2>2. UNCHANGED grant \/ grant' = [grant EXCEPT ![c][x] = "live"]
    BY <1>4 DEF Claim, ClaimTurn, Scan, ScanTurn, Granted
  <2>3. grant' \in [Commands -> [Claims -> {"none", "live", "dead"}]]
    <3> DEFINE q == [grant[c] EXCEPT ![x] = "live"]
    <3>1. grant \in [Commands -> [Claims -> {"none", "live", "dead"}]]
      BY <1>1 DEF ConfirmTypeOK
    <3>2. q \in [Claims -> {"none", "live", "dead"}]
      BY <3>1
    <3>3. UNCHANGED grant \/ grant' = [grant EXCEPT ![c] = q]
      BY <2>2
    <3> HIDE DEF q
    <3> QED
      BY <3>1, <3>2, <3>3
  <2> QED
    BY <2>1, <2>3, ClaimOneHolds
<1>5. ASSUME NEW c \in Commands, LeaseLapses(c) PROVE ConfirmInv' /\ Fenced
  BY <1>5, LapseHolds
<1> QED
  BY <1>2, <1>3, <1>4, <1>5, SubmitHolds, HolderHolds DEF ConfirmStep, ConfirmNext

LEMMA ConfirmInvSuffices == ConfirmInv => RunsAreAnsweredOnce
<1> SUFFICES ASSUME ConfirmInv, NEW r \in Runs
             PROVE  LET confirmed == {i \in DOMAIN history[r] : history[r][i].to = "confirmed"}
                    IN  /\ Cardinality(AcceptedFor(r)) = Cardinality(confirmed)
                        /\ Cardinality(confirmed) <= 1
  BY DEF RunsAreAnsweredOnce, OneAnswerPerRun, ConfirmInv
<1> DEFINE confirmed == {i \in DOMAIN history[r] : history[r][i].to = "confirmed"}
<1>1. /\ Tells(run[r], history[r]) /\ DOMAIN history[r] = 1 .. Len(history[r])
  BY LenProperties DEF ConfirmInv, RunInv
<1>2. \A i, j \in confirmed : i = j
  BY <1>1, ConfirmedOnce
<1>3. confirmed # {} <=> AcceptedFor(r) # {}
  BY <1>1 DEF ConfirmInv, Reached, AcceptedFor
<1>4. \A c, d \in AcceptedFor(r) : c = d
  BY DEF ConfirmInv, AcceptedFor
<1> HIDE DEF confirmed
<1>5. Cardinality({}) = 0 /\ \A i : Cardinality({i}) = 1
  BY FS_EmptySet, FS_Singleton
<1>6. SUFFICES Cardinality(AcceptedFor(r)) = Cardinality(confirmed) /\ Cardinality(confirmed) <= 1
  BY DEF confirmed
<1>7. CASE confirmed = {}
  BY <1>3, <1>7, <1>5
<1>8. CASE confirmed # {}
  <2>1. PICK i \in confirmed, c \in AcceptedFor(r) : TRUE
    BY <1>3, <1>8
  <2>2. confirmed = {i} /\ AcceptedFor(r) = {c}
    BY <1>2, <1>4, <2>1
  <2>3. Cardinality({i}) = 1 /\ Cardinality({c}) = 1
    BY <1>5
  <2>4. Cardinality(confirmed) = 1 /\ Cardinality(AcceptedFor(r)) = 1
    BY <2>2, <2>3, Zenon
  <2> QED
    BY <2>4
<1> QED
  BY <1>7, <1>8

LEMMA ConfirmAlways == ConfirmSpec => []ConfirmInv /\ [][Fenced]_confirmVars
<1>1. ConfirmInv /\ [ConfirmStep]_<<runVars, confirmVars>> => ConfirmInv'
  BY ConfirmStepHolds
<1>2. ConfirmInv /\ [ConfirmStep]_<<runVars, confirmVars>> => [Fenced]_confirmVars
  BY ConfirmStepHolds
<1> QED
  BY <1>1, <1>2, ConfirmInitSound, PTL DEF ConfirmSpec

\* The history of a run that is answered, fails or is cancelled explains its row.
THEOREM AnsweredHistoryTells == ConfirmSpec => []HistoryTellsRun
<1>1. ConfirmInv => HistoryTellsRun
  BY RunInvSuffices DEF ConfirmInv
<1> QED
  BY <1>1, ConfirmAlways, PTL

\* A run takes one confirmation, and is confirmed by no other way.
THEOREM RunsAlwaysAnsweredOnce == ConfirmSpec => []RunsAreAnsweredOnce
  BY ConfirmAlways, ConfirmInvSuffices, PTL

\* A dispatcher that lost its message records no turn and changes nothing of it any more.
THEOREM LateClaimsAlwaysFenced == ConfirmSpec => LateClaimsAreFenced
  BY ConfirmAlways, PTL DEF LateClaimsAreFenced, Fenced
-----------------------------------------------------------------------------
(* Launches.                                                               *)

\* An owner holds its row alone and has a receipt when the row is decided, an open row
\* is the only one of its goal, and a row that was not inserted bought nothing.
PreInv ==
  /\ \A p \in Preflights : preflight[p].status = "none" => preflight[p].run = None
  /\ \A g \in Goals : \A p, o \in Open(preflight, g) : p = o
  /\ \A q \in Requests : request[q].owner =>
       /\ request[q].pf \in Preflights
       /\ LET status == preflight[request[q].pf].status
          IN  /\ status # "none"
              /\ status \in {"passed", "expired"} <=> request[q].receipt = "passed"
              /\ status = "failed" <=> request[q].receipt = "failed"
  /\ \A q, o \in Requests :
       request[q].owner /\ request[o].owner /\ request[q].pf = request[o].pf => q = o

BuyInv ==
  /\ OneRunPerKey
  /\ \A r \in Created : origin[r].key \in Keys /\ origin[r].source \in Keys

\* The claim that was issued last was issued for a run of this source.
SendInv ==
  /\ latest \in [Keys -> LaunchClaims \cup {None}]
  /\ EnvelopeTellsLatest
  /\ \A x \in LaunchClaims : turn[x].state # "none" => turn[x].run \in Created
  /\ \A k \in Keys : latest[k] # None => /\ turn[latest[k]].state # "none"
                                         /\ origin[turn[latest[k]].run].source = k

LaunchInv == RunInv /\ LaunchTypeOK /\ PreInv /\ BuyInv /\ SendInv

PreflightRow == [status : {"none", "checking", "passed", "failed", "expired"},
                 goal : Goals \cup {None}, run : Runs \cup {None}, lapsed : BOOLEAN]
RequestRow   == [pf : Preflights \cup {None}, owner : BOOLEAN,
                 receipt : {"checking", "passed", "failed", None}]

PreTyped ==
  /\ preflight \in [Preflights -> PreflightRow] /\ request \in [Requests -> RequestRow]
  /\ stage \in [Requests -> Stages \cup {"idle", "failing", "done"}]

LEMMA LaunchInitSound == RunInit /\ LaunchInit => LaunchInv
<1> SUFFICES ASSUME RunInit, LaunchInit PROVE LaunchInv
  OBVIOUS
<1>1. LaunchTypeOK
  BY DEF LaunchInit, LaunchTypeOK, NoPreflight, NoRequest, NoOrigin, NoEnvelope, NoTurn
<1>2. Created = {} /\ \A p \in Preflights : preflight[p].status = "none" /\ preflight[p].run = None
  BY DEF RunInit, LaunchInit, Created, NoRun, NoPreflight
<1>3. /\ \A q \in Requests : ~ request[q].owner
      /\ \A k \in Keys : latest[k] = None
      /\ \A x \in LaunchClaims : turn[x].state = "none"
      /\ latest \in [Keys -> LaunchClaims \cup {None}]
  BY DEF LaunchInit, NoRequest, NoTurn
<1>4. PreInv
  BY <1>2, <1>3 DEF PreInv, Open
<1>5. BuyInv
  BY <1>2 DEF BuyInv, OneRunPerKey
<1>6. SendInv
  BY <1>3 DEF SendInv, EnvelopeTellsLatest
<1>7. RunInv
  <2> DEFINE h == <<>>
  <2>1. h \in Seq(Transition) /\ Len(h) = 0
    OBVIOUS
  <2>2. NoRun \in RunRow /\ NoRun.status = "none" /\ NoRun.version = 0 /\ ~ NoRun.session
    BY DEF NoRun, RunRow, AnyStatus
  <2>3. run = [r \in Runs |-> NoRun] /\ history = [r \in Runs |-> h]
    BY DEF RunInit
  <2> HIDE DEF h
  <2>4. From(h, 1) = "none" /\ ~ Reached(h, "running") /\ Len(h) + 1 = 1
    BY <2>1 DEF From, Reached
  <2>5. Tells(NoRun, h)
    BY <2>1, <2>2, <2>4 DEF Tells
  <2> QED
    BY <2>1, <2>2, <2>3, <2>5 DEF RunInv
<1> QED
  BY <1>1, <1>4, <1>5, <1>6, <1>7 DEF LaunchInv

\* The preflights change, and no run of theirs.
LEMMA PreflightsOnly ==
  ASSUME LaunchInv, UNCHANGED <<runVars, origin, sendVars>>, PreTyped', PreInv',
         \A p \in Preflights : /\ preflight'[p].run = preflight[p].run
                               /\ preflight[p].run # None => preflight'[p].goal = preflight[p].goal
  PROVE  LaunchInv'
<1>1. UNCHANGED <<run, history, origin, envelope, turn, latest>>
  BY DEF runVars, sendVars
<1>2. Created' = Created
  BY <1>1 DEF Created
<1>3. LaunchTypeOK'
  BY <1>1 DEF LaunchInv, LaunchTypeOK, PreTyped, PreflightRow, RequestRow
<1>4. RunInv'
  BY <1>1 DEF LaunchInv, RunInv
<1>5. BuyInv'
  BY <1>1, <1>2 DEF LaunchInv, BuyInv, OneRunPerKey
<1>6. SendInv'
  BY <1>1, <1>2 DEF LaunchInv, SendInv, EnvelopeTellsLatest
<1> QED
  BY <1>3, <1>4, <1>5, <1>6 DEF LaunchInv

\* Rows lapse or expire, and no owner's receipt changes.
LEMMA RowsAge ==
  ASSUME LaunchInv, UNCHANGED <<runVars, origin, sendVars>>, PreTyped',
         \A p \in Preflights :
            /\ preflight'[p].run = preflight[p].run /\ preflight'[p].goal = preflight[p].goal
            /\ \/ preflight'[p].status = preflight[p].status
               \/ preflight[p].status = "passed" /\ preflight'[p].status = "expired",
         \A q \in Requests : request'[q] = request[q] \/ ~ request'[q].owner
  PROVE  LaunchInv'
<1>1. PreInv
  BY DEF LaunchInv
<1>2. \A g \in Goals : Open(preflight', g) \subseteq Open(preflight, g)
  BY DEF Open
<1>3. \A g \in Goals : Open(preflight, g)' = Open(preflight', g)
  BY DEF Open
<1>4. ASSUME NEW q \in Requests, request'[q].owner
      PROVE  /\ request'[q] = request[q] /\ request'[q].pf \in Preflights
             /\ LET status == preflight'[request'[q].pf].status
                IN  /\ status # "none"
                    /\ status \in {"passed", "expired"} <=> request'[q].receipt = "passed"
                    /\ status = "failed" <=> request'[q].receipt = "failed"
  BY <1>1, <1>4 DEF PreInv
<1>5. PreInv'
  BY <1>1, <1>2, <1>3, <1>4 DEF PreInv
<1> QED
  BY <1>5, PreflightsOnly

LEMMA ExpiredAges ==
  ASSUME LaunchInv, NEW g
  PROVE  /\ Expired(g) \in [Preflights -> PreflightRow]
         /\ \A p \in Preflights :
              LET rows == Expired(g)
              IN  /\ rows[p].run = preflight[p].run /\ rows[p].goal = preflight[p].goal
                  /\ \/ rows[p].status = preflight[p].status
                     \/ preflight[p].status = "passed" /\ rows[p].status = "expired"
<1>1. preflight \in [Preflights -> PreflightRow]
  BY DEF LaunchInv, LaunchTypeOK, PreflightRow
<1>2. ASSUME NEW p \in Preflights
      PROVE  LET q == [preflight[p] EXCEPT !.status = "expired"]
             IN  q \in PreflightRow /\ q.run = preflight[p].run /\ q.goal = preflight[p].goal
                 /\ q.status = "expired"
  BY <1>1 DEF PreflightRow
<1> QED
  BY <1>1, <1>2 DEF Expired

\* The row is decided, and so is the receipt of its owner.
LEMMA SettledHolds ==
  ASSUME LaunchInv, NEW q \in Requests, MayGoOn(q), NEW s \in {"passed", "failed"}, Settled(q, s),
         UNCHANGED <<runVars, origin, sendVars>>,
         stage' \in [Requests -> Stages \cup {"idle", "failing", "done"}]
  PROVE  LaunchInv'
<1> DEFINE p == request[q].pf
           row == [preflight[p] EXCEPT !.status = s]
           answer == [request[q] EXCEPT !.receipt = s]
<1>1. /\ preflight \in [Preflights -> PreflightRow] /\ request \in [Requests -> RequestRow]
      /\ PreInv
  BY DEF LaunchInv, LaunchTypeOK, PreflightRow, RequestRow
<1>2. p \in Preflights /\ request[q].owner /\ preflight[p].status = "checking"
  BY <1>1 DEF MayGoOn, PreInv
<1>3. /\ row \in PreflightRow /\ row.status = s /\ row.goal = preflight[p].goal
      /\ row.run = preflight[p].run
  BY <1>1, <1>2 DEF PreflightRow
<1>4. /\ answer \in RequestRow /\ answer.receipt = s /\ answer.pf = p
      /\ answer.owner = request[q].owner
  BY <1>1 DEF RequestRow
<1>5. preflight' = [preflight EXCEPT ![p] = row] /\ request' = [request EXCEPT ![q] = answer]
  BY DEF Settled
<1> HIDE DEF row, answer
<1>6. PreTyped'
  BY <1>1, <1>3, <1>4, <1>5 DEF PreTyped
<1>7. \A o \in Preflights : preflight'[o] = IF o = p THEN row ELSE preflight[o]
  BY <1>1, <1>5
<1>8. \A o \in Requests : request'[o] = IF o = q THEN answer ELSE request[o]
  BY <1>1, <1>5
<1> HIDE DEF p
<1>9. \A g \in Goals : Open(preflight', g) \subseteq Open(preflight, g)
  BY <1>2, <1>3, <1>7 DEF Open
<1>10. \A g \in Goals : Open(preflight, g)' = Open(preflight', g)
  BY DEF Open
<1>11. \A o \in Requests : request'[o].owner = request[o].owner /\ request'[o].pf = request[o].pf
  BY <1>4, <1>8 DEF p
<1>12. ASSUME NEW o \in Requests, request'[o].owner
       PROVE  /\ request'[o].pf \in Preflights
              /\ LET status == preflight'[request'[o].pf].status
                 IN  /\ status # "none"
                     /\ status \in {"passed", "expired"} <=> request'[o].receipt = "passed"
                     /\ status = "failed" <=> request'[o].receipt = "failed"
  <2>1. CASE o = q
    BY <1>2, <1>3, <1>4, <1>7, <1>8, <2>1
  <2>2. CASE o # q
    <3>1. request[o].pf # p /\ request'[o] = request[o] /\ request[o].pf \in Preflights
      BY <1>1, <1>2, <1>8, <1>11, <1>12, <2>2 DEF PreInv, p
    <3> QED
      BY <1>1, <1>7, <1>12, <3>1 DEF PreInv
  <2> QED
    BY <2>1, <2>2
<1>13. PreInv'
  BY <1>1, <1>2, <1>3, <1>7, <1>9, <1>10, <1>11, <1>12 DEF PreInv
<1> QED
  BY <1>3, <1>6, <1>7, <1>13, PreflightsOnly

\* A row is inserted, of which its request is the owner.
LEMMA InsertHolds ==
  ASSUME LaunchInv, NEW q \in Requests, NEW g \in Goals, NEW p \in Preflights, Receive(q, g, p),
         Open(Expired(g), g) = {}
  PROVE  LaunchInv'
<1> DEFINE rows == Expired(g)
           row == [rows[p] EXCEPT !.status = "checking", !.goal = g]
           answer == [pf |-> p, owner |-> TRUE, receipt |-> None]
<1>1. /\ preflight \in [Preflights -> PreflightRow] /\ request \in [Requests -> RequestRow]
      /\ stage \in [Requests -> Stages \cup {"idle", "failing", "done"}] /\ PreInv
  BY DEF LaunchInv, LaunchTypeOK, PreflightRow, RequestRow
<1>2. /\ rows \in [Preflights -> PreflightRow]
      /\ \A o \in Preflights :
              /\ rows[o].run = preflight[o].run /\ rows[o].goal = preflight[o].goal
              /\ \/ rows[o].status = preflight[o].status
                 \/ preflight[o].status = "passed" /\ rows[o].status = "expired"
  BY ExpiredAges
<1>3. /\ preflight[p].status = "none" /\ UNCHANGED <<runVars, origin, sendVars>>
      /\ stage' = [stage EXCEPT ![q] = "binding"]
  BY DEF Receive
<1>4. preflight' = [rows EXCEPT ![p] = row]
  BY <1>2 DEF Receive
<1>5. request' = [request EXCEPT ![q] = answer]
  BY DEF Receive
<1>6. row \in PreflightRow /\ row.status = "checking" /\ row.goal = g /\ row.run = rows[p].run
  BY <1>2 DEF PreflightRow
<1>7. answer \in RequestRow /\ answer.pf = p /\ answer.owner /\ answer.receipt = None
  BY DEF RequestRow
<1>8. \A s, t \in Open(rows, g) : FALSE
  OBVIOUS
<1> HIDE DEF rows, row, answer
<1>9. PreTyped'
  BY <1>1, <1>2, <1>3, <1>4, <1>5, <1>6, <1>7 DEF PreTyped, Stages
<1>10. \A o \in Preflights : preflight'[o] = IF o = p THEN row ELSE rows[o]
  BY <1>2, <1>4
<1>11. \A o \in Requests : request'[o] = IF o = q THEN answer ELSE request[o]
  BY <1>1, <1>5
<1>12. preflight[p].run = None
  BY <1>1, <1>3 DEF PreInv
<1>13. ASSUME NEW o \in Preflights, preflight'[o].status = "none" PROVE preflight'[o].run = None
  BY <1>1, <1>2, <1>6, <1>10, <1>12, <1>13 DEF PreInv
<1>14. ASSUME NEW e \in Goals, NEW a \in Open(preflight', e), NEW b \in Open(preflight', e)
       PROVE  a = b
  <2>1. CASE e = g
    <3>1. a \in Preflights /\ b \in Preflights
      BY DEF Open
    <3>2. ASSUME NEW o \in Open(preflight', g), o # p PROVE FALSE
      <4>1. o \in Open(rows, g)
        BY <1>10, <3>2 DEF Open
      <4> QED
        BY <1>8, <4>1
    <3> QED
      BY <2>1, <3>2
  <2>2. CASE e # g
    <3>1. \A o \in Open(preflight', e) : o \in Open(preflight, e)
      BY <1>2, <1>6, <1>10, <2>2 DEF Open
    <3> QED
      BY <1>1, <3>1 DEF PreInv
  <2> QED
    BY <2>1, <2>2
<1>15. ASSUME NEW o \in Requests, request'[o].owner, o # q
       PROVE  /\ request'[o] = request[o] /\ request[o].pf \in Preflights
              /\ request[o].pf # p
  BY <1>1, <1>3, <1>11, <1>15 DEF PreInv
<1>16. ASSUME NEW o \in Requests, request'[o].owner
       PROVE  /\ request'[o].pf \in Preflights
              /\ LET status == preflight'[request'[o].pf].status
                 IN  /\ status # "none"
                     /\ status \in {"passed", "expired"} <=> request'[o].receipt = "passed"
                     /\ status = "failed" <=> request'[o].receipt = "failed"
  <2>1. CASE o = q
    BY <1>6, <1>7, <1>10, <1>11, <2>1, NoneIsNothing
  <2>2. CASE o # q
    <3>1. /\ request'[o] = request[o] /\ request[o].pf \in Preflights
          /\ preflight'[request[o].pf] = rows[request[o].pf]
      BY <1>10, <1>15, <1>16, <2>2
    <3> QED
      BY <1>1, <1>2, <1>16, <3>1 DEF PreInv
  <2> QED
    BY <2>1, <2>2
<1>17. \A o, e \in Requests :
          request'[o].owner /\ request'[e].owner /\ request'[o].pf = request'[e].pf => o = e
  BY <1>1, <1>7, <1>11, <1>15 DEF PreInv
<1>18. \A e \in Goals : Open(preflight, e)' = Open(preflight', e)
  BY DEF Open
<1>19. PreInv'
  BY <1>13, <1>14, <1>16, <1>17, <1>18 DEF PreInv
<1>20. \A o \in Preflights : /\ preflight'[o].run = preflight[o].run
                             /\ preflight[o].run # None => preflight'[o].goal = preflight[o].goal
  BY <1>2, <1>6, <1>10, <1>12
<1> QED
  BY <1>3, <1>9, <1>19, <1>20, PreflightsOnly

LEMMA ReceiveHolds ==
  ASSUME LaunchInv, NEW q \in Requests, NEW g \in Goals, NEW p \in Preflights, Receive(q, g, p)
  PROVE  LaunchInv'
<1>1. CASE Open(Expired(g), g) = {}
  BY <1>1, InsertHolds
<1>2. CASE Open(Expired(g), g) # {}
  <2> DEFINE rows == Expired(g)
             answer == [pf |-> p, owner |-> FALSE, receipt |-> rows[p].status]
  <2>1. /\ preflight' = rows /\ request' = [request EXCEPT ![q] = answer]
        /\ stage' = [stage EXCEPT ![q] = "done"] /\ UNCHANGED <<runVars, origin, sendVars>>
        /\ rows[p].status \in {"checking", "passed"}
    BY <1>2 DEF Receive, Open
  <2>2. /\ rows \in [Preflights -> PreflightRow]
        /\ \A o \in Preflights :
              /\ rows[o].run = preflight[o].run /\ rows[o].goal = preflight[o].goal
              /\ \/ rows[o].status = preflight[o].status
                 \/ preflight[o].status = "passed" /\ rows[o].status = "expired"
    BY ExpiredAges
  <2>3. answer \in RequestRow /\ ~ answer.owner
    BY <2>1 DEF RequestRow
  <2>4. /\ request \in [Requests -> RequestRow]
        /\ stage \in [Requests -> Stages \cup {"idle", "failing", "done"}]
    BY DEF LaunchInv, LaunchTypeOK, RequestRow
  <2> HIDE DEF rows, answer
  <2>5. PreTyped' /\ \A o \in Requests : request'[o] = request[o] \/ ~ request'[o].owner
    BY <2>1, <2>2, <2>3, <2>4 DEF PreTyped
  <2> QED
    BY <2>1, <2>2, <2>5, RowsAge
<1> QED
  BY <1>1, <1>2

\* Every other step of a request.
LEMMA RequestHolds ==
  ASSUME LaunchInv, NEW q \in Requests,
         StagePasses(q) \/ StageFails(q) \/ Pass(q) \/ FailPreflight(q) \/ Stop(q)
  PROVE  LaunchInv'
<1>1. /\ preflight \in [Preflights -> PreflightRow] /\ request \in [Requests -> RequestRow]
      /\ stage \in [Requests -> Stages \cup {"idle", "failing", "done"}]
  BY DEF LaunchInv, LaunchTypeOK, PreflightRow, RequestRow
<1>2. ASSUME NEW s \in Stages \cup {"idle", "failing", "done"}, stage' = [stage EXCEPT ![q] = s]
      PROVE  stage' \in [Requests -> Stages \cup {"idle", "failing", "done"}]
  BY <1>1, <1>2
<1>3. ASSUME NEW s \in Stages \cup {"idle", "failing", "done"}, stage' = [stage EXCEPT ![q] = s],
             UNCHANGED <<runVars, preflight, request, origin, sendVars>>
      PROVE  LaunchInv'
  <2>1. PreTyped'
    BY <1>1, <1>2, <1>3 DEF PreTyped
  <2> QED
    BY <1>3, <2>1, RowsAge
<1>4. CASE StagePasses(q)
  <2>1. After(stage[q]) \in Stages
    BY <1>4 DEF StagePasses, After, Stages
  <2>2. stage' = [stage EXCEPT ![q] = After(stage[q])]
    BY <1>1, <1>4 DEF StagePasses
  <2> QED
    BY <1>3, <1>4, <2>1, <2>2 DEF StagePasses
<1>5. CASE StageFails(q) \/ Stop(q)
  BY <1>3, <1>5 DEF StageFails, Stop
<1>6. CASE Pass(q)
  <2>1. PICK s \in {"done", "failing"} : stage' = [stage EXCEPT ![q] = s]
    BY <1>6 DEF Pass
  <2> QED
    BY <1>2, <1>6, <2>1, SettledHolds DEF Pass
<1>7. CASE FailPreflight(q)
  <2>1. stage' = [stage EXCEPT ![q] = "done"] /\ UNCHANGED <<runVars, origin, sendVars>>
    BY <1>7 DEF FailPreflight
  <2>2. CASE request[q].receipt # None
    BY <1>3, <1>7, <2>1, <2>2 DEF FailPreflight
  <2>3. CASE request[q].receipt = None
    BY <1>2, <1>7, <2>1, <2>3, SettledHolds DEF FailPreflight
  <2> QED
    BY <2>2, <2>3
<1> QED
  BY <1>4, <1>5, <1>6, <1>7

LEMMA LapsePreflightHolds ==
  ASSUME LaunchInv, NEW p \in Preflights, Lapse(p)
  PROVE  LaunchInv'
<1> DEFINE row == [preflight[p] EXCEPT !.lapsed = TRUE]
<1>1. PreTyped
  BY DEF LaunchInv, LaunchTypeOK, PreflightRow, RequestRow, PreTyped
<1>2. /\ row \in PreflightRow /\ row.run = preflight[p].run /\ row.goal = preflight[p].goal
      /\ row.status = preflight[p].status /\ preflight' = [preflight EXCEPT ![p] = row]
      /\ UNCHANGED <<request, stage, runVars, origin, sendVars>>
  BY <1>1 DEF PreTyped, PreflightRow, Lapse
<1> HIDE DEF row
<1>3. PreTyped' /\ \A o \in Preflights : preflight'[o] = IF o = p THEN row ELSE preflight[o]
  BY <1>1, <1>2 DEF PreTyped
<1> QED
  BY <1>2, <1>3, RowsAge

OriginRow == [key : Keys \cup {None}, source : Keys \cup {None},
              retryOf : Runs \cup {None}, goal : Goals \cup {None}]

\* The token of p is spent on r, which has the facts it was bought with.
LEMMA SpentHolds ==
  ASSUME LaunchInv, NEW p \in Preflights, NEW r \in Runs, TokenValid(p),
         preflight' = [preflight EXCEPT ![p].run = r], UNCHANGED <<request, stage>>
  PROVE  /\ PreTyped' /\ PreInv'
         /\ preflight[p].run = None
         /\ \A o \in Preflights : /\ preflight'[o].goal = preflight[o].goal
                                  /\ preflight'[o].run = IF o = p THEN r ELSE preflight[o].run
<1> DEFINE row == [preflight[p] EXCEPT !.run = r]
<1>1. PreTyped /\ PreInv
  BY DEF LaunchInv, LaunchTypeOK, PreflightRow, RequestRow, PreTyped
<1>2. /\ row \in PreflightRow /\ row.run = r /\ row.goal = preflight[p].goal
      /\ row.status = preflight[p].status /\ preflight' = [preflight EXCEPT ![p] = row]
  BY <1>1 DEF PreTyped, PreflightRow
<1>3. preflight[p].run = None /\ preflight[p].status = "passed"
  BY DEF TokenValid
<1> HIDE DEF row
<1>4. PreTyped' /\ \A o \in Preflights : preflight'[o] = IF o = p THEN row ELSE preflight[o]
  BY <1>1, <1>2 DEF PreTyped
<1>5. \A o \in Preflights : preflight'[o].status = preflight[o].status
                              /\ preflight'[o].goal = preflight[o].goal
  BY <1>2, <1>4
<1>6. \A g \in Goals : Open(preflight', g) \subseteq Open(preflight, g)
  BY <1>2, <1>3, <1>4 DEF Open
<1>7. \A g \in Goals : Open(preflight, g)' = Open(preflight', g)
  BY DEF Open
<1>8. \A o \in Preflights : preflight'[o].status = "none" => preflight'[o].run = None
  BY <1>1, <1>3, <1>4, <1>5 DEF PreInv
<1>9. ASSUME NEW q \in Requests, request[q].owner
      PROVE  /\ request[q].pf \in Preflights
             /\ preflight'[request[q].pf].status = preflight[request[q].pf].status
  BY <1>1, <1>5, <1>9 DEF PreInv
<1>10. \A g \in Goals : \A o, e \in Open(preflight', g) : o = e
  BY <1>1, <1>6 DEF PreInv
<1>11. ASSUME NEW q \in Requests, request[q].owner
       PROVE  /\ request[q].pf \in Preflights
              /\ LET status == preflight'[request[q].pf].status
                 IN  /\ status # "none"
                     /\ status \in {"passed", "expired"} <=> request[q].receipt = "passed"
                     /\ status = "failed" <=> request[q].receipt = "failed"
  BY <1>1, <1>9, <1>11 DEF PreInv
<1>12. \A g \in Goals : \A o, e \in Open(preflight, g)' : o = e
  BY <1>7, <1>10
<1>13. PreInv'
  BY <1>1, <1>8, <1>11, <1>12 DEF PreInv
<1> QED
  BY <1>2, <1>3, <1>4, <1>5, <1>13

\* A run is bought, or found again.
LEMMA BuyHolds ==
  ASSUME LaunchInv, NEW p \in Preflights, NEW r \in Runs, NEW facts \in OriginRow,
         facts.key \in Keys, facts.source \in Keys, facts.goal = preflight[p].goal,
         facts.retryOf # None =>
           /\ run[facts.retryOf].status \in {"failed", "cancelled"}
           /\ origin[facts.retryOf].source = facts.source
           /\ origin[facts.retryOf].goal = facts.goal,
         Buy(p, facts, r)
  PROVE  LaunchInv'
<1>1. /\ TokenValid(p) /\ preflight' = [preflight EXCEPT ![p].run = r]
      /\ UNCHANGED <<request, stage, envelope, turn, latest>>
  BY DEF Buy, sendVars
<1>2. /\ PreTyped' /\ PreInv' /\ preflight[p].run = None
      /\ \A o \in Preflights : /\ preflight'[o].goal = preflight[o].goal
                               /\ preflight'[o].run = IF o = p THEN r ELSE preflight[o].run
  BY <1>1, SpentHolds
<1>3. RunInv /\ LaunchTypeOK /\ BuyInv /\ SendInv /\ origin \in [Runs -> OriginRow]
  BY DEF LaunchInv, LaunchTypeOK, OriginRow
<1>4. ASSUME RunInv', origin' \in [Runs -> OriginRow], Created' = Created \cup {r},
             origin'[r] = facts,
             \A o \in Created : origin'[o] = origin[o],
             \A o \in Created : run'[o].status = run[o].status,
             \A o \in Created : origin[o].key = facts.key => o = r
      PROVE  LaunchInv'
  <2>1. LaunchTypeOK'
    BY <1>1, <1>2, <1>3, <1>4 DEF LaunchTypeOK, PreTyped, PreflightRow, RequestRow, OriginRow
  <2>2. \A o \in Created' : o \in Created \/ o = r
    BY <1>4
  <2>3. \A o, s \in Created' : origin'[o].key = origin'[s].key => o = s
    BY <1>3, <1>4, <2>2 DEF BuyInv, OneRunPerKey
  <2>4. ASSUME NEW o \in Preflights, preflight'[o].run # None
        PROVE  /\ preflight'[o].run \in Created'
               /\ origin'[preflight'[o].run].goal = preflight'[o].goal
    <3>1. CASE o = p
      BY <1>2, <1>4, <3>1
    <3>2. CASE o # p
      <4>1. preflight'[o].run = preflight[o].run /\ preflight[o].run # None
        BY <1>2, <2>4, <3>2
      <4>2. preflight[o].run \in Created /\ origin[preflight[o].run].goal = preflight[o].goal
        BY <1>3, <4>1 DEF BuyInv, OneRunPerKey
      <4> QED
        BY <1>2, <1>4, <4>1, <4>2
    <3> QED
      BY <3>1, <3>2
  <2>5. ASSUME NEW s \in Created' PROVE \E o \in Preflights : preflight'[o].run = s
    <3>1. CASE s = r
      BY <1>2, <3>1
    <3>2. CASE s # r
      <4>1. PICK o \in Preflights : preflight[o].run = s
        BY <1>3, <2>2, <3>2 DEF BuyInv, OneRunPerKey
      <4>2. s # None
        BY <1>4, NoneIsNothing DEF Created
      <4> QED
        BY <1>2, <4>1, <4>2
    <3> QED
      BY <3>1, <3>2
  <2>6. \A o \in Runs : run[o].status \in {"failed", "cancelled"} => o \in Created
    BY DEF Created
  <2>7. ASSUME NEW s \in Created', origin'[s].retryOf # None
        PROVE  LET o == origin'[s].retryOf
               IN  /\ run'[o].status \in {"failed", "cancelled"}
                   /\ origin'[o].source = origin'[s].source
                   /\ origin'[o].goal = origin'[s].goal
    <3> DEFINE o == origin'[s].retryOf
    <3>1. o \in Runs
      <4>1. s \in Runs
        BY DEF Created
      <4> QED
        BY <1>4, <2>7, <4>1 DEF OriginRow
    <3>2. CASE s = r /\ origin'[s] = facts
      BY <1>4, <2>6, <2>7, <3>1, <3>2
    <3>3. CASE s \in Created
      <4>1. origin'[s] = origin[s] /\ origin[s].retryOf = o
        BY <1>4, <3>3
      <4>2. /\ run[o].status \in {"failed", "cancelled"}
            /\ origin[o].source = origin[s].source /\ origin[o].goal = origin[s].goal
        BY <1>3, <2>7, <3>3, <4>1 DEF BuyInv, OneRunPerKey
      <4> QED
        BY <1>4, <2>6, <3>1, <4>1, <4>2
    <3> QED
      BY <1>4, <2>2, <3>2, <3>3
  <2>8. BuyInv'
    <3>1. \A o \in Created' : origin'[o].key \in Keys /\ origin'[o].source \in Keys
      BY <1>3, <1>4, <2>2 DEF BuyInv
    <3>2. OneRunPerKey'
      BY <2>3, <2>4, <2>5, <2>7 DEF OneRunPerKey
    <3> QED
      BY <3>1, <3>2 DEF BuyInv
  <2>9. SendInv'
    <3>1. \A x \in LaunchClaims : turn[x].state # "none" =>
             turn[x].run \in Created /\ origin'[turn[x].run] = origin[turn[x].run]
      BY <1>3, <1>4 DEF SendInv
    <3>2. \A k \in Keys : latest[k] # None => latest[k] \in LaunchClaims
      BY <1>3 DEF SendInv
    <3>3. /\ latest' \in [Keys -> LaunchClaims \cup {None}]
          /\ \A x \in LaunchClaims : turn'[x].state # "none" => turn'[x].run \in Created'
      BY <1>1, <1>3, <1>4, <3>1 DEF SendInv
    <3>4. \A k \in Keys : latest'[k] # None =>
             turn'[latest'[k]].state # "none" /\ origin'[turn'[latest'[k]].run].source = k
      BY <1>1, <1>3, <3>1, <3>2 DEF SendInv
    <3>5. EnvelopeTellsLatest'
      BY <1>1, <1>3 DEF SendInv, EnvelopeTellsLatest
    <3> QED
      BY <3>3, <3>4, <3>5 DEF SendInv
  <2> QED
    BY <1>2, <1>4, <2>1, <2>8, <2>9 DEF LaunchInv
<1>5. CASE RunsOf(facts.key) # {}
  <2>1. r \in RunsOf(facts.key) /\ origin[r] = facts /\ UNCHANGED <<run, history, origin>>
    BY <1>5 DEF Buy, runVars
  <2>2. r \in Created /\ origin[r].key = facts.key /\ Created' = Created
    BY <2>1 DEF RunsOf, Created
  <2>3. \A o \in Created : origin[o].key = facts.key => o = r
    BY <1>3, <2>2 DEF BuyInv, OneRunPerKey
  <2>4. RunInv'
    BY <1>3, <2>1 DEF RunInv
  <2> QED
    BY <1>3, <1>4, <2>1, <2>2, <2>3, <2>4
<1>6. CASE RunsOf(facts.key) = {}
  <2>1. Queue(r) /\ origin' = [origin EXCEPT ![r] = facts]
    BY <1>6 DEF Buy
  <2>2. Moved(r) /\ run[r].status = "none" /\ run'[r].status = "queued"
    BY <1>3, <2>1, QueueMoves
  <2>3. RunInv' /\ \A o \in Runs \ {r} : run'[o] = run[o]
    BY <2>2 DEF Moved
  <2>4. r \notin Created /\ Created' = Created \cup {r}
    BY <2>2, <2>3 DEF Created
  <2>5. \A o \in Created : o \in Runs \ {r}
    BY <2>4 DEF Created
  <2>6. \A o \in Created : origin[o].key # facts.key
    BY <1>6 DEF RunsOf
  <2>7. origin' \in [Runs -> OriginRow] /\ origin'[r] = facts
        /\ \A o \in Created : origin'[o] = origin[o]
    BY <1>3, <2>1, <2>5
  <2> QED
    BY <1>4, <2>3, <2>4, <2>5, <2>6, <2>7
<1> QED
  BY <1>5, <1>6

LEMMA CreateHolds ==
  ASSUME LaunchInv, NEW r \in Runs, NEW k \in Keys, NEW source \in Keys, NEW p \in Preflights,
         Create(r, k, source, p)
  PROVE  LaunchInv'
<1> DEFINE facts == [key |-> k, source |-> source, retryOf |-> None, goal |-> preflight[p].goal]
<1>1. preflight[p].goal \in Goals \cup {None}
  BY DEF LaunchInv, LaunchTypeOK
<1>2. /\ facts \in OriginRow /\ facts.key = k /\ facts.source = source /\ facts.retryOf = None
      /\ facts.goal = preflight[p].goal
  BY <1>1 DEF OriginRow
<1>3. Buy(p, facts, r)
  BY DEF Create
<1> HIDE DEF facts
<1> QED
  BY <1>2, <1>3, BuyHolds

LEMMA RetryHolds ==
  ASSUME LaunchInv, NEW r \in Runs, NEW k \in Keys, NEW o \in Created, NEW p \in Preflights,
         Retry(r, k, o, p)
  PROVE  LaunchInv'
<1> DEFINE facts == [key |-> k, source |-> origin[o].source, retryOf |-> o, goal |-> origin[o].goal]
<1>1. /\ o \in Runs /\ origin[o].source \in Keys /\ origin[o].goal \in Goals \cup {None}
      /\ run[o].status \in {"failed", "cancelled"} /\ preflight[p].goal = origin[o].goal
  BY DEF LaunchInv, LaunchTypeOK, BuyInv, Retry, Retryable, Created
<1>2. /\ facts \in OriginRow /\ facts.key = k /\ facts.source = origin[o].source
      /\ facts.retryOf = o /\ facts.goal = origin[o].goal
  BY <1>1 DEF OriginRow
<1>3. Buy(p, facts, r)
  BY DEF Retry
<1> HIDE DEF facts
<1> QED
  BY <1>1, <1>2, <1>3, BuyHolds

EnvelopeRow == [state : {"none", "pending", "dispatching", "dispatched", "failed"},
                claim : LaunchClaims \cup {None}, fresh : BOOLEAN]
TurnRow     == [run : Runs \cup {None}, state : {"none", "running", "accepted", "refused"}]

SendTyped ==
  envelope \in [Keys -> EnvelopeRow] /\ turn \in [LaunchClaims -> TurnRow]

LEMMA SendsOnly ==
  ASSUME LaunchInv, UNCHANGED <<runVars, preVars, origin>>, SendTyped', SendInv'
  PROVE  LaunchInv'
<1>1. UNCHANGED <<run, history, preflight, request, stage, origin>>
  BY DEF runVars, preVars
<1>2. LaunchTypeOK'
  BY <1>1 DEF LaunchInv, LaunchTypeOK, SendTyped, EnvelopeRow, TurnRow
<1>3. RunInv'
  BY <1>1 DEF LaunchInv, RunInv
<1>4. PreInv'
  BY <1>1 DEF LaunchInv, PreInv, Open
<1>5. BuyInv'
  BY <1>1 DEF LaunchInv, BuyInv, OneRunPerKey, Created
<1> QED
  BY <1>2, <1>3, <1>4, <1>5 DEF LaunchInv

\* What an envelope says of the claim that was issued last.
SaysOf(e, x) ==
  CASE e.state = "dispatched"  -> turn[x].state = "accepted"
    [] e.state = "pending"     -> turn[x].state = "refused"
    [] e.state = "dispatching" -> turn[x].state = "running" /\ e.claim = x
    [] OTHER -> e.state = "failed"

LEMMA EnvelopeSays ==
  EnvelopeTellsLatest <=> \A k \in Keys : latest[k] # None => SaysOf(envelope[k], latest[k])
  BY DEF EnvelopeTellsLatest, SaysOf

\* An envelope changes, and no turn.
LEMMA EnvelopeHolds ==
  ASSUME LaunchInv, NEW k \in Keys, NEW e \in EnvelopeRow, envelope' = [envelope EXCEPT ![k] = e],
         latest[k] # None => SaysOf(e, latest[k]),
         UNCHANGED <<runVars, preVars, origin, turn, latest>>
  PROVE  LaunchInv'
<1>1. SendTyped /\ SendInv
  BY DEF LaunchInv, LaunchTypeOK, SendTyped, EnvelopeRow, TurnRow
<1>2. SendTyped' /\ \A o \in Keys : envelope'[o] = IF o = k THEN e ELSE envelope[o]
  BY <1>1 DEF SendTyped
<1>3. EnvelopeTellsLatest'
  <2>1. \A o \in Keys : latest[o] # None => SaysOf(envelope[o], latest[o])
    BY <1>1, EnvelopeSays DEF SendInv
  <2>2. \A o \in Keys : latest[o] # None => SaysOf(envelope'[o], latest[o])
    BY <1>2, <2>1
  <2> QED
    BY <2>2 DEF EnvelopeTellsLatest, SaysOf
<1>4. UNCHANGED <<run, origin, turn, latest>>
  BY DEF runVars
<1>5. SendInv'
  BY <1>1, <1>3, <1>4 DEF SendInv, Created
<1> QED
  BY <1>2, <1>5, SendsOnly

LEMMA SourceHolds ==
  ASSUME LaunchInv, NEW k \in Keys, EnsureSource(k) \/ ClaimGoesStale(k)
  PROVE  LaunchInv'
<1>1. SendTyped /\ SendInv
  BY DEF LaunchInv, LaunchTypeOK, SendTyped, EnvelopeRow, TurnRow
<1>2. latest[k] # None => SaysOf(envelope[k], latest[k])
  BY <1>1, EnvelopeSays DEF SendInv
<1>3. CASE EnsureSource(k)
  <2> DEFINE e == [envelope[k] EXCEPT !.state = "pending"]
  <2>1. e \in EnvelopeRow /\ envelope' = [envelope EXCEPT ![k] = e]
    BY <1>1, <1>3 DEF SendTyped, EnvelopeRow, EnsureSource
  <2> HIDE DEF e
  <2>2. latest[k] = None
    BY <1>2, <1>3 DEF EnsureSource, SaysOf
  <2> QED
    BY <1>3, <2>1, <2>2, EnvelopeHolds DEF EnsureSource
<1>4. CASE ClaimGoesStale(k)
  <2> DEFINE e == [envelope[k] EXCEPT !.fresh = FALSE]
  <2>1. /\ e \in EnvelopeRow /\ envelope' = [envelope EXCEPT ![k] = e]
        /\ e.state = envelope[k].state /\ e.claim = envelope[k].claim
    BY <1>1, <1>4 DEF SendTyped, EnvelopeRow, ClaimGoesStale
  <2> HIDE DEF e
  <2>2. latest[k] # None => SaysOf(e, latest[k])
    BY <1>2, <2>1 DEF SaysOf
  <2> QED
    BY <1>4, <2>1, <2>2, EnvelopeHolds DEF ClaimGoesStale
<1> QED
  BY <1>3, <1>4

LEMMA TellFailureHolds ==
  ASSUME LaunchInv, NEW r \in Created, TellFailure(r)
  PROVE  LaunchInv'
<1> DEFINE e == [state |-> "failed", claim |-> None, fresh |-> FALSE]
<1>1. origin[r].source \in Keys
  BY DEF LaunchInv, BuyInv
<1>2. e \in EnvelopeRow /\ e.state = "failed" /\ envelope' = [envelope EXCEPT ![origin[r].source] = e]
  BY DEF EnvelopeRow, TellFailure
<1> HIDE DEF e
<1>3. \A x : SaysOf(e, x)
  BY <1>2 DEF SaysOf
<1> QED
  BY <1>1, <1>2, <1>3, EnvelopeHolds DEF TellFailure

LEMMA ClaimDispatchHolds ==
  ASSUME LaunchInv, NEW r \in Created, NEW x \in LaunchClaims, ClaimDispatch(r, x)
  PROVE  LaunchInv'
<1> DEFINE k == origin[r].source
           e == [state |-> "dispatching", claim |-> x, fresh |-> TRUE]
           t == [run |-> r, state |-> "running"]
<1>1. SendTyped /\ SendInv /\ k \in Keys /\ r \in Runs
  BY DEF LaunchInv, LaunchTypeOK, SendTyped, EnvelopeRow, TurnRow, BuyInv, Created
<1>2. /\ envelope' = [envelope EXCEPT ![k] = e] /\ turn' = [turn EXCEPT ![x] = t]
      /\ latest' = [latest EXCEPT ![k] = x] /\ turn[x].state = "none"
      /\ UNCHANGED <<runVars, preVars, origin>>
  BY DEF ClaimDispatch, NoTurn
<1>3. e \in EnvelopeRow /\ e.state = "dispatching" /\ e.claim = x
      /\ t \in TurnRow /\ t.run = r /\ t.state = "running"
  BY <1>1 DEF EnvelopeRow, TurnRow
<1> HIDE DEF e, t
<1>4. /\ \A o \in Keys : envelope'[o] = (IF o = k THEN e ELSE envelope[o])
                           /\ latest'[o] = (IF o = k THEN x ELSE latest[o])
      /\ \A y \in LaunchClaims : turn'[y] = IF y = x THEN t ELSE turn[y]
      /\ latest' \in [Keys -> LaunchClaims \cup {None}] /\ SendTyped'
  BY <1>1, <1>2, <1>3 DEF SendTyped, SendInv
<1>5. UNCHANGED <<run, origin>> /\ Created' = Created
  BY <1>2 DEF runVars, Created
<1>6. ASSUME NEW o \in Keys, o # k, latest'[o] # None
      PROVE  /\ latest'[o] = latest[o] /\ latest[o] \in LaunchClaims /\ latest[o] # x
             /\ turn'[latest[o]] = turn[latest[o]]
  BY <1>1, <1>2, <1>4, <1>6 DEF SendInv
<1>7. origin[r].source = k
  OBVIOUS
<1> HIDE DEF k
<1>8. EnvelopeTellsLatest'
  <2> SUFFICES ASSUME NEW o \in Keys, latest'[o] # None
               PROVE  CASE envelope'[o].state = "dispatched"  -> turn'[latest'[o]].state = "accepted"
                        [] envelope'[o].state = "pending"     -> turn'[latest'[o]].state = "refused"
                        [] envelope'[o].state = "dispatching" ->
                             turn'[latest'[o]].state = "running" /\ envelope'[o].claim = latest'[o]
                        [] OTHER -> envelope'[o].state = "failed"
    BY DEF EnvelopeTellsLatest
  <2>1. CASE o = k
    BY <1>3, <1>4, <2>1
  <2>2. CASE o # k
    <3>1. SaysOf(envelope[o], latest[o]) /\ envelope'[o] = envelope[o]
      BY <1>1, <1>4, <1>6, <2>2, EnvelopeSays DEF SendInv
    <3> QED
      BY <1>6, <2>2, <3>1 DEF SaysOf
  <2> QED
    BY <2>1, <2>2
<1>9. \A y \in LaunchClaims : turn'[y].state # "none" => turn'[y].run \in Created'
  BY <1>1, <1>3, <1>4, <1>5 DEF SendInv
<1>10. ASSUME NEW o \in Keys, latest'[o] # None
       PROVE  turn'[latest'[o]].state # "none" /\ origin'[turn'[latest'[o]].run].source = o
  <2>1. CASE o = k
    BY <1>3, <1>4, <1>5, <1>7, <2>1
  <2>2. CASE o # k
    BY <1>1, <1>5, <1>6, <1>10, <2>2 DEF SendInv
  <2> QED
    BY <2>1, <2>2
<1>11. SendInv'
  BY <1>4, <1>8, <1>9, <1>10 DEF SendInv
<1> QED
  BY <1>2, <1>4, <1>11, SendsOnly

LEMMA FinishHolds ==
  ASSUME LaunchInv, NEW x \in LaunchClaims, NEW accepted \in BOOLEAN, FinishDispatch(x, accepted)
  PROVE  LaunchInv'
<1> DEFINE k == origin[turn[x].run].source
           s == IF accepted THEN "accepted" ELSE "refused"
           e == [state |-> IF accepted THEN "dispatched" ELSE "pending",
                 claim |-> None, fresh |-> FALSE]
           t == [turn[x] EXCEPT !.state = s]
<1>1. SendTyped /\ SendInv
  BY DEF LaunchInv, LaunchTypeOK, SendTyped, EnvelopeRow, TurnRow
<1>2. /\ turn[x].state = "running" /\ turn' = [turn EXCEPT ![x] = t]
      /\ envelope' = IF Held(k, x) THEN [envelope EXCEPT ![k] = e] ELSE envelope
      /\ UNCHANGED <<runVars, preVars, origin, latest>>
  BY <1>1 DEF FinishDispatch, SendTyped
<1>3. turn[x].run \in Created /\ k \in Keys
  BY <1>1, <1>2 DEF SendInv, LaunchInv, BuyInv
<1>4. t \in TurnRow /\ t.run = turn[x].run /\ t.state = s /\ s # "none"
  BY <1>1 DEF SendTyped, TurnRow
<1>5. e \in EnvelopeRow /\ e.state = IF accepted THEN "dispatched" ELSE "pending"
  BY DEF EnvelopeRow
<1> HIDE DEF e, t
<1>6. /\ \A y \in LaunchClaims : turn'[y] = IF y = x THEN t ELSE turn[y]
      /\ \A o \in Keys : envelope'[o] = IF o = k /\ Held(k, x) THEN e ELSE envelope[o]
      /\ SendTyped'
  BY <1>1, <1>2, <1>4, <1>5 DEF SendTyped
<1>7. UNCHANGED <<run, origin, latest>> /\ Created' = Created
  BY <1>2 DEF runVars, Created
<1>8. ASSUME NEW o \in Keys, latest[o] # None
      PROVE  /\ latest[o] \in LaunchClaims /\ SaysOf(envelope[o], latest[o])
             /\ origin[turn[latest[o]].run].source = o /\ turn[latest[o]].state # "none"
  BY <1>1, <1>8, EnvelopeSays DEF SendInv
<1>9. ASSUME NEW o \in Keys, latest'[o] # None
      PROVE  CASE envelope'[o].state = "dispatched"  -> turn'[latest'[o]].state = "accepted"
               [] envelope'[o].state = "pending"     -> turn'[latest'[o]].state = "refused"
               [] envelope'[o].state = "dispatching" ->
                    turn'[latest'[o]].state = "running" /\ envelope'[o].claim = latest'[o]
               [] OTHER -> envelope'[o].state = "failed"
  <2>1. CASE latest[o] = x
    <3>1. o = k
      BY <1>7, <1>8, <1>9, <2>1
    <3>2. CASE Held(k, x)
      <4>1. envelope'[o] = e /\ turn'[latest'[o]] = t
        BY <1>6, <1>7, <2>1, <3>1, <3>2
      <4> QED
        BY <1>4, <1>5, <4>1
    <3>3. CASE ~ Held(k, x)
      <4>1. envelope'[o] = envelope[o]
        BY <1>6, <3>3
      <4>2. SaysOf(envelope[o], x)
        BY <1>7, <1>8, <1>9, <2>1
      <4>3. ~ (envelope[o].state = "dispatching" /\ envelope[o].claim = x)
        BY <3>1, <3>3 DEF Held
      <4>4. envelope[o].state = "failed"
        BY <1>2, <4>2, <4>3 DEF SaysOf
      <4> QED
        BY <4>1, <4>4
    <3> QED
      BY <3>2, <3>3
  <2>2. CASE latest[o] # x
    <3>1. turn'[latest'[o]] = turn[latest[o]] /\ SaysOf(envelope[o], latest[o])
      BY <1>6, <1>7, <1>8, <1>9, <2>2
    <3>2. envelope'[o] = envelope[o]
      <4>1. ASSUME o = k, Held(k, x) PROVE FALSE
        BY <2>2, <3>1, <4>1 DEF SaysOf, Held
      <4> QED
        BY <1>6, <4>1
    <3> QED
      BY <1>7, <3>1, <3>2 DEF SaysOf
  <2> QED
    BY <2>1, <2>2
<1>10. EnvelopeTellsLatest'
  BY <1>9 DEF EnvelopeTellsLatest
<1>11. \A y \in LaunchClaims : turn'[y].state # "none" => turn'[y].run \in Created'
  BY <1>1, <1>3, <1>4, <1>6, <1>7 DEF SendInv
<1>12. ASSUME NEW o \in Keys, latest'[o] # None
       PROVE  turn'[latest'[o]].state # "none" /\ origin'[turn'[latest'[o]].run].source = o
  BY <1>4, <1>6, <1>7, <1>8, <1>12
<1>13. SendInv'
  <2>1. latest' \in [Keys -> LaunchClaims \cup {None}]
    BY <1>1, <1>7 DEF SendInv
  <2> QED
    BY <1>10, <1>11, <1>12, <2>1 DEF SendInv
<1> QED
  BY <1>2, <1>6, <1>13, SendsOnly

\* A run moves on its own: what was created stays created, and what ended stays so.
LEMMA RunMoveHolds ==
  ASSUME LaunchInv, RunNext, UNCHANGED launchVars
  PROVE  LaunchInv'
<1>1. UNCHANGED <<preflight, request, stage, origin, envelope, turn, latest>>
  BY DEF launchVars
<1>2. RunInv /\ LaunchTypeOK /\ PreInv /\ BuyInv /\ SendInv
  BY DEF LaunchInv
<1>3. PICK r \in Runs : Moved(r) /\ run[r].status \in Nonterminal
  BY <1>2, RunNextMoves
<1>4. /\ RunInv' /\ run'[r].status \in Statuses
      /\ run[r].status \notin {"failed", "cancelled"}
      /\ \A o \in Runs \ {r} : run'[o] = run[o]
  BY <1>3 DEF Moved
<1>5. "none" \notin Statuses
  BY EndsAreNoStage DEF Statuses
<1>6. Created' = Created
  <2>1. run[r].status # "none" /\ run'[r].status # "none"
    BY <1>3, <1>4, <1>5 DEF Statuses
  <2> QED
    BY <1>4, <2>1 DEF Created
<1>7. \A o \in Runs : run[o].status \in {"failed", "cancelled"} => run'[o] = run[o]
  BY <1>4
<1>8. \A s \in Created : origin[s].retryOf # None => origin[s].retryOf \in Runs
  BY <1>2 DEF LaunchTypeOK, Created
<1>9. BuyInv'
  <2>1. \A s \in Created' : origin'[s].retryOf # None =>
           LET o == origin'[s].retryOf
           IN  /\ run'[o].status \in {"failed", "cancelled"}
               /\ origin'[o].source = origin'[s].source /\ origin'[o].goal = origin'[s].goal
    BY <1>1, <1>2, <1>6, <1>7, <1>8 DEF BuyInv, OneRunPerKey
  <2> QED
    BY <1>1, <1>2, <1>6, <2>1 DEF BuyInv, OneRunPerKey
<1>10. SendInv'
  BY <1>1, <1>2, <1>6 DEF SendInv, EnvelopeTellsLatest
<1>11. PreInv' /\ LaunchTypeOK'
  BY <1>1, <1>2 DEF PreInv, Open, LaunchTypeOK
<1> QED
  BY <1>4, <1>9, <1>10, <1>11 DEF LaunchInv

LEMMA LaunchStepHolds == LaunchInv /\ [LaunchStep]_<<runVars, launchVars>> => LaunchInv'
<1> SUFFICES ASSUME LaunchInv, [LaunchStep]_<<runVars, launchVars>> PROVE LaunchInv'
  OBVIOUS
<1>1. CASE UNCHANGED <<runVars, launchVars>>
  BY <1>1 DEF runVars, launchVars, LaunchInv, RunInv, LaunchTypeOK, PreInv, Open, BuyInv,
              OneRunPerKey, Created, SendInv, EnvelopeTellsLatest
<1>2. CASE RunNext /\ UNCHANGED launchVars
  BY <1>2, RunMoveHolds
<1>3. CASE LaunchNext
  <2>1. CASE \E q \in Requests :
               \/ \E g \in Goals, p \in Preflights : Receive(q, g, p)
               \/ StagePasses(q) \/ StageFails(q) \/ Pass(q) \/ FailPreflight(q) \/ Stop(q)
    BY <2>1, ReceiveHolds, RequestHolds
  <2>2. CASE \E p \in Preflights : Lapse(p)
    BY <2>2, LapsePreflightHolds
  <2>3. CASE \E k \in Keys : EnsureSource(k) \/ ClaimGoesStale(k)
    BY <2>3, SourceHolds
  <2>4. CASE \E r \in Runs, k \in Keys, p \in Preflights :
               \/ \E source \in Keys : Create(r, k, source, p)
               \/ \E o \in Created : Retry(r, k, o, p)
    BY <2>4, CreateHolds, RetryHolds
  <2>5. CASE \E r \in Created : TellFailure(r) \/ \E x \in LaunchClaims : ClaimDispatch(r, x)
    BY <2>5, TellFailureHolds, ClaimDispatchHolds
  <2>6. CASE \E x \in LaunchClaims, accepted \in BOOLEAN : FinishDispatch(x, accepted)
    BY <2>6, FinishHolds
  <2> QED
    BY <1>3, <2>1, <2>2, <2>3, <2>4, <2>5, <2>6 DEF LaunchNext
<1> QED
  BY <1>1, <1>2, <1>3 DEF LaunchStep

LEMMA LaunchInvSuffices == LaunchInv => LaunchesAreSound /\ HistoryTellsRun
<1> SUFFICES ASSUME LaunchInv PROVE LaunchesAreSound /\ HistoryTellsRun
  OBVIOUS
<1>1. ASSUME NEW g \in Goals PROVE Cardinality(Open(preflight, g)) <= 1
  <2>1. \A p, o \in Open(preflight, g) : p = o
    BY DEF LaunchInv, PreInv
  <2>2. CASE Open(preflight, g) = {}
    BY <2>2, FS_EmptySet
  <2>3. CASE Open(preflight, g) # {}
    <3>1. PICK p \in Open(preflight, g) : TRUE
      BY <2>3
    <3>2. Open(preflight, g) = {p}
      BY <2>1, <3>1
    <3>3. Cardinality({p}) = 1
      BY FS_Singleton
    <3>4. Cardinality(Open(preflight, g)) = 1
      BY <3>2, <3>3, Zenon
    <3> QED
      BY <3>4
  <2> QED
    BY <2>2, <2>3
<1>2. ReceiptTellsPreflight
  BY <1>1 DEF LaunchInv, PreInv, ReceiptTellsPreflight
<1> QED
  BY <1>2, RunInvSuffices
     DEF LaunchInv, BuyInv, SendInv, LaunchesAreSound, RunsAreBoughtOnce

LEMMA LaunchAlways == LaunchSpec => []LaunchInv
  BY LaunchInitSound, LaunchStepHolds, PTL DEF LaunchSpec

\* However a launch was repeated, lost or taken over: a key and a token have one run, which
\* was bought for its goal; a receipt tells what became of its preflight, of which one is open
\* for a goal; and a source tells what became of the claim that was issued last.
THEOREM LaunchesAlwaysSound == LaunchSpec => []LaunchesAreSound
  BY LaunchAlways, LaunchInvSuffices, PTL

\* The history of a run that is launched, fails or is cancelled explains its row.
THEOREM LaunchedHistoryTells == LaunchSpec => []HistoryTellsRun
  BY LaunchAlways, LaunchInvSuffices, PTL

-----------------------------------------------------------------------------
(* Reflections.                                                            *)


TaskStatuses == {"none", "CREATED", "ASSEMBLING", "QUEUED", "RUNNING"} \cup Terminal
Bearer   == [revoked : BOOLEAN, time : {"fresh", "short over", "maximum over"}]

RowTypes ==
  /\ reflection \in [status : TaskStatuses, old : BOOLEAN, bound : BOOLEAN, snapshot : BOOLEAN]
  /\ section \in [Sections -> [status : {"none", "PENDING", "RUNNING"} \cup Ending, count : Nat]]
  /\ result \in [Sections -> Nat] /\ stored \in [Sections -> Nat]
  /\ bearer \in [Sections -> Seq(Bearer)]

\* A task that a service has taken has all its rows, any other has none.
RowsComeTogether ==
  /\ \A s \in Sections : (section[s].status # "none") <=> reflection.bound
  /\ reflection.status = "none" => ~ reflection.bound /\ ~ reflection.old
  /\ reflection.snapshot => reflection.bound
  /\ ~ reflection.bound /\ reflection.status # "none" => reflection.old
  /\ ~ reflection.bound /\ reflection.status \notin Terminal =>
       \A s \in Sections : result[s] = 0
  /\ ~ reflection.bound => report = NoReport

\* What has rows tells its results, and what has ended is told by them.
RowsTell ==
  reflection.bound =>
    /\ \A s \in Sections : /\ result[s] = section[s].count
                           /\ section[s].status # "COMPLETED" => section[s].count = 0
    /\ reflection.status \in Terminal =>
         /\ \A s \in Sections : section[s].status \in Ending
         /\ ~ reflection.old /\ reflection.status # "FAILED" =>
              reflection.status = StatusOf(section)
    /\ report # NoReport => /\ reflection.status \in Terminal
                            /\ report.completed = Completed /\ report.results = result

ReflectionInv == RowTypes /\ RowsComeTogether /\ RowsTell /\ BearerFollowsSection

-----------------------------------------------------------------------------
(* Operators.                                                              *)

\* The revocation of bearers leaves as many, and none that is live.
LEMMA RevokedNone ==
  ASSUME NEW bs \in Seq(Bearer)
  PROVE  /\ Revoked(bs) \in Seq(Bearer) /\ DOMAIN Revoked(bs) = DOMAIN bs
         /\ \A i \in DOMAIN bs : Revoked(bs)[i].revoked
<1>1. \A i \in DOMAIN bs : bs[i] \in Bearer
  OBVIOUS
<1>2. DOMAIN bs = 1 .. Len(bs) /\ Len(bs) \in Nat
  OBVIOUS
<1>3. \A i \in DOMAIN bs : /\ [bs[i] EXCEPT !.revoked = TRUE] \in Bearer
                           /\ [bs[i] EXCEPT !.revoked = TRUE].revoked
  BY <1>1 DEF Bearer
<1>4. Revoked(bs) \in Seq(Bearer)
  BY <1>2, <1>3 DEF Revoked
<1> QED
  BY <1>3, <1>4 DEF Revoked

\* The status that sections give a task is one it ends with.
LEMMA StatusOfIsTerminal ==
  ASSUME NEW rows PROVE StatusOf(rows) \in Terminal
BY DEF StatusOf, Terminal

-----------------------------------------------------------------------------
(* The steps.                                                              *)

ReflectionStep == ReflectionInv' /\ EndsStay

LEMMA ReflectionInitHolds == ReflectionInit => ReflectionInv
<1> SUFFICES ASSUME ReflectionInit PROVE ReflectionInv
  OBVIOUS
<1>1. RowTypes
  <2>1. reflection \in [status : TaskStatuses, old : BOOLEAN, bound : BOOLEAN, snapshot : BOOLEAN]
    BY Zenon DEF ReflectionInit, TaskStatuses
  <2>2. section \in [Sections -> [status : {"none", "PENDING", "RUNNING"} \cup Ending, count : Nat]]
    BY DEF ReflectionInit, NoSection
  <2>3. result \in [Sections -> Nat] /\ stored \in [Sections -> Nat]
    BY ReflectionAssumption DEF ReflectionInit
  <2>4. bearer \in [Sections -> Seq(Bearer)]
    BY DEF ReflectionInit
  <2> QED
    BY <2>1, <2>2, <2>3, <2>4 DEF RowTypes
<1>2. RowsComeTogether
  BY DEF ReflectionInit, RowsComeTogether, NoSection, Terminal
<1>3. RowsTell
  BY DEF ReflectionInit, RowsTell
<1>4. BearerFollowsSection
  BY DEF ReflectionInit, BearerFollowsSection, LiveBearers
<1> QED
  BY <1>1, <1>2, <1>3, <1>4 DEF ReflectionInv

\* A new task has the rows of all sections, and nothing else.
LEMMA TaskCreateHolds == ASSUME ReflectionInv, CreateReflection PROVE ReflectionStep
<1> USE DEF CreateReflection
<1>1. ~ reflection.bound /\ ~ reflection.old
  BY DEF ReflectionInv, RowsComeTogether
<1>2. \A s \in Sections : section[s].status = "none" /\ result[s] = 0
  BY <1>1 DEF ReflectionInv, RowsComeTogether, Terminal
<1>3. RowTypes'
  BY DEF ReflectionInv, RowTypes, TaskStatuses, Pending
<1>4. RowsComeTogether' /\ RowsTell'
  BY <1>1, <1>2, <1>3 DEF ReflectionInv, RowTypes, RowsComeTogether, RowsTell, Terminal, Pending
<1>5. BearerFollowsSection'
  <2>1. \A s \in Sections : LiveBearers(s) = {}
    BY DEF ReflectionInv, BearerFollowsSection, SectionRuns
  <2> QED
    BY <2>1 DEF BearerFollowsSection, LiveBearers
<1>6. EndsStay
  BY <1>2 DEF EndsStay, Terminal, Ending
<1> QED
  BY <1>3, <1>4, <1>5, <1>6 DEF ReflectionStep, ReflectionInv

\* What the older program left gets rows that tell its results; rows there are stay.
LEMMA WithMissingTells ==
  ASSUME ReflectionInv
  PROVE  /\ WithMissing \in [Sections -> [status : {"PENDING", "RUNNING"} \cup Ending, count : Nat]]
         /\ reflection.bound => WithMissing = section
         /\ ~ reflection.bound => \A s \in Sections : WithMissing[s] = Historical(s)
<1>1. \A s \in Sections : Historical(s) \in [status : {"PENDING"} \cup Ending, count : Nat]
  BY DEF ReflectionInv, RowTypes, Historical, Pending, Failed, Ending
<1>2. CASE reflection.bound
  <2>1. \A s \in Sections : WithMissing[s] = section[s] /\ section[s].status # "none"
    BY <1>2 DEF ReflectionInv, RowsComeTogether, WithMissing
  <2>2. WithMissing = section
    BY <2>1 DEF ReflectionInv, RowTypes, WithMissing
  <2> QED
    BY <1>2, <2>1, <2>2 DEF ReflectionInv, RowTypes
<1>3. CASE ~ reflection.bound
  <2>1. \A s \in Sections : WithMissing[s] = Historical(s)
    BY <1>3 DEF ReflectionInv, RowsComeTogether, WithMissing
  <2> QED
    BY <1>1, <1>3, <2>1 DEF WithMissing
<1> QED
  BY <1>2, <1>3

\* Adoption, whether by a start or by a worker that loads.
Adopts ==
  /\ section' = WithMissing
  /\ reflection'.bound /\ reflection'.old = reflection.old
  /\ \/ reflection'.status = reflection.status
     \/ reflection.status = "CREATED" /\ reflection'.status = "ASSEMBLING"
  /\ reflection.status # "none"
  /\ UNCHANGED <<result, bearer, stored, report>>

LEMMA AdoptionHolds ==
  ASSUME ReflectionInv, Adopts,
         reflection' \in [status : TaskStatuses, old : BOOLEAN, bound : BOOLEAN, snapshot : BOOLEAN]
  PROVE  ReflectionStep
<1> USE DEF Adopts
<1>1. CASE reflection.bound
  <2>1. section' = section
    BY <1>1, WithMissingTells
  <2>2. RowTypes'
    BY <2>1 DEF ReflectionInv, RowTypes
  <2>3. RowsComeTogether'
    BY <1>1, <2>1 DEF ReflectionInv, RowsComeTogether
  <2>4. RowsTell'
    BY <1>1, <2>1 DEF ReflectionInv, RowsTell, StatusOf, Completed, Terminal
  <2>5. BearerFollowsSection'
    BY <2>1 DEF ReflectionInv, BearerFollowsSection, LiveBearers, SectionRuns
  <2>6. EndsStay
    BY <2>1 DEF EndsStay, Terminal
  <2> QED
    BY <2>2, <2>3, <2>4, <2>5, <2>6 DEF ReflectionStep, ReflectionInv
<1>2. CASE ~ reflection.bound
  <2>1. /\ \A s \in Sections : section'[s] = Historical(s) /\ section[s].status = "none"
        /\ reflection.old
    BY <1>2, WithMissingTells DEF ReflectionInv, RowsComeTogether
  <2>2. RowTypes'
    BY WithMissingTells DEF ReflectionInv, RowTypes
  <2>3. RowsComeTogether'
    BY <2>2, WithMissingTells DEF RowsComeTogether, Ending
  <2>4. \A s \in Sections :
          /\ result[s] = section'[s].count
          /\ section'[s].status # "COMPLETED" => section'[s].count = 0
          /\ reflection.status \in Terminal => section'[s].status \in Ending
    <3>1. SUFFICES ASSUME NEW s \in Sections
                   PROVE  /\ result[s] = Historical(s).count
                          /\ Historical(s).status # "COMPLETED" => Historical(s).count = 0
                          /\ reflection.status \in Terminal => Historical(s).status \in Ending
      BY <2>1
    <3>2. result[s] \in Nat
      BY DEF ReflectionInv, RowTypes
    <3>3. reflection.status \notin Terminal => result[s] = 0
      BY <1>2 DEF ReflectionInv, RowsComeTogether
    <3> QED
      BY <3>2, <3>3 DEF Historical, Pending, Failed, Ending
  <2>5. report = NoReport /\ (reflection'.status \in Terminal => reflection.status \in Terminal)
    BY <1>2 DEF ReflectionInv, RowsComeTogether, Terminal
  <2>6. RowsTell'
    BY <2>1, <2>4, <2>5 DEF RowsTell
  <2>7. \A s \in Sections : LiveBearers(s) = {}
    BY <2>1 DEF ReflectionInv, BearerFollowsSection, SectionRuns
  <2>8. BearerFollowsSection'
    BY <2>7 DEF BearerFollowsSection, LiveBearers
  <2>9. EndsStay
    BY <2>1 DEF EndsStay, Terminal, Ending
  <2> QED
    BY <2>2, <2>3, <2>6, <2>8, <2>9 DEF ReflectionStep, ReflectionInv
<1> QED
  BY <1>1, <1>2

LEMMA StartHolds == ASSUME ReflectionInv, StartReflection PROVE ReflectionStep
<1>1. reflection' \in [status : TaskStatuses, old : BOOLEAN, bound : BOOLEAN, snapshot : BOOLEAN]
  BY DEF StartReflection, ReflectionInv, RowTypes
<1>2. Adopts
  BY DEF StartReflection, Adopts, ReflectionInv, RowTypes
<1> QED
  BY <1>1, <1>2, AdoptionHolds

LEMMA LoadHolds == ASSUME ReflectionInv, LoadWorker PROVE ReflectionStep
<1>1. reflection' \in [status : TaskStatuses, old : BOOLEAN, bound : BOOLEAN, snapshot : BOOLEAN]
  BY DEF LoadWorker, ReflectionInv, RowTypes, TaskStatuses
<1>2. reflection.status # "none"
  BY DEF LoadWorker, ReflectionInv, RowsComeTogether
<1>3. Adopts
  BY <1>2 DEF LoadWorker, Adopts, ReflectionInv, RowTypes
<1> QED
  BY <1>1, <1>3, AdoptionHolds

\* No bearer is live while a task waits to run.
LEMMA TaskAdvanceHolds ==
  ASSUME ReflectionInv, NEW st \in DOMAIN StageFrom, Advance(st)
  PROVE  ReflectionStep
<1>1. /\ st \in {"QUEUED", "RUNNING"} /\ reflection.bound
      /\ reflection.status \in {"ASSEMBLING", "QUEUED"}
  BY DEF Advance, StageFrom
<1>2. RowTypes'
  BY <1>1 DEF Advance, ReflectionInv, RowTypes, TaskStatuses
<1>3. reflection'.status = st /\ reflection'.bound /\ reflection'.snapshot = reflection.snapshot
  BY <1>1 DEF Advance, ReflectionInv, RowTypes
<1>4. RowsComeTogether'
  BY <1>1, <1>3 DEF Advance, ReflectionInv, RowsComeTogether
<1>5. RowsTell'
  BY <1>1, <1>3 DEF Advance, ReflectionInv, RowsTell, Terminal
<1>6. BearerFollowsSection'
  <2>1. \A s \in Sections : LiveBearers(s) = {}
    BY <1>1 DEF ReflectionInv, BearerFollowsSection, SectionRuns
  <2> QED
    BY <2>1 DEF Advance, BearerFollowsSection, LiveBearers
<1>7. EndsStay
  BY <1>1 DEF Advance, EndsStay, Terminal
<1> QED
  BY <1>2, <1>4, <1>5, <1>6, <1>7 DEF ReflectionStep, ReflectionInv

\* What has ended stays when the rest fails, and what fails has no results.
LEMMA PendingFailedTells ==
  ASSUME ReflectionInv, reflection.bound
  PROVE  /\ PendingFailed \in [Sections -> [status : Ending, count : Nat]]
         /\ \A s \in Sections :
              /\ section[s].status \in Ending => PendingFailed[s] = section[s]
              /\ result[s] = PendingFailed[s].count
              /\ PendingFailed[s].status # "COMPLETED" => PendingFailed[s].count = 0
<1>1. SUFFICES ASSUME NEW s \in Sections
               PROVE  /\ PendingFailed[s] \in [status : Ending, count : Nat]
                      /\ section[s].status \in Ending => PendingFailed[s] = section[s]
                      /\ result[s] = PendingFailed[s].count
                      /\ PendingFailed[s].status # "COMPLETED" => PendingFailed[s].count = 0
  BY Zenon DEF PendingFailed
<1>2. section[s] \in [status : {"PENDING", "RUNNING"} \cup Ending, count : Nat]
  BY DEF ReflectionInv, RowTypes, RowsComeTogether
<1>3. result[s] = section[s].count /\ (section[s].status # "COMPLETED" => section[s].count = 0)
  BY DEF ReflectionInv, RowsTell
<1>4. PendingFailed[s] = IF section[s].status \in {"PENDING", "RUNNING"} THEN Failed ELSE section[s]
  BY DEF PendingFailed
<1> QED
  BY <1>2, <1>3, <1>4 DEF Failed, Ending

\* An end of the task: its sections have ended, and no bearer is live.
Ends(rows, status) ==
  /\ rows \in {section, PendingFailed} /\ \A s \in Sections : rows[s].status \in Ending
  /\ status \in Terminal /\ (status # "FAILED" => status = StatusOf(rows))
  /\ reflection.status \in Terminal => status = reflection.status
  /\ section' = rows /\ AllRevoked /\ reflection' = [reflection EXCEPT !.status = status]
  /\ UNCHANGED <<result, stored, report>>

LEMMA EndHolds ==
  ASSUME ReflectionInv, reflection.bound, NEW rows, NEW status, Ends(rows, status)
  PROVE  ReflectionStep
<1>1. /\ section' \in [Sections -> [status : Ending, count : Nat]]
      /\ \A s \in Sections :
           /\ section[s].status \in Ending => section'[s] = section[s]
           /\ result[s] = section'[s].count
           /\ section'[s].status # "COMPLETED" => section'[s].count = 0
  <2>1. CASE rows = PendingFailed
    BY <2>1, PendingFailedTells DEF Ends
  <2>2. CASE rows = section
    <3>1. \A s \in Sections : section[s] \in [status : Ending, count : Nat]
      BY <2>2 DEF Ends, ReflectionInv, RowTypes
    <3> QED
      BY <2>2, <3>1 DEF Ends, ReflectionInv, RowTypes, RowsTell
  <2> QED
    BY <2>1, <2>2 DEF Ends
<1>2. /\ reflection'.status = status /\ reflection'.bound
      /\ reflection'.old = reflection.old /\ reflection'.snapshot = reflection.snapshot
      /\ status \in Terminal
  BY DEF Ends, ReflectionInv, RowTypes
<1>3. \A s \in Sections : bearer'[s] \in Seq(Bearer) /\ LiveBearers(s)' = {}
  <2>1. SUFFICES ASSUME NEW s \in Sections
                 PROVE  bearer'[s] \in Seq(Bearer) /\ LiveBearers(s)' = {}
    OBVIOUS
  <2>2. bearer[s] \in Seq(Bearer) /\ bearer'[s] = Revoked(bearer[s])
    BY DEF Ends, AllRevoked, ReflectionInv, RowTypes
  <2> QED
    BY <2>2, RevokedNone DEF LiveBearers
<1>4. RowTypes'
  <2>1. reflection' \in [status : TaskStatuses, old : BOOLEAN, bound : BOOLEAN, snapshot : BOOLEAN]
    BY DEF Ends, ReflectionInv, RowTypes, TaskStatuses
  <2>2. bearer' \in [Sections -> Seq(Bearer)]
    BY <1>3 DEF Ends, AllRevoked
  <2>3. section' \in [Sections -> [status : {"none", "PENDING", "RUNNING"} \cup Ending, count : Nat]]
    BY <1>1
  <2> QED
    BY <2>1, <2>2, <2>3 DEF Ends, ReflectionInv, RowTypes
<1>5. RowsComeTogether'
  BY <1>1, <1>2 DEF ReflectionInv, RowsComeTogether, Ending, Terminal
<1>6. RowsTell'
  <2>1. status # "FAILED" => status = StatusOf(section)'
    BY DEF Ends, StatusOf
  <2>2. report # NoReport => Completed' = Completed
    <3>1. report # NoReport => \A s \in Sections : section'[s] = section[s]
      BY <1>1 DEF ReflectionInv, RowsTell
    <3> QED
      BY <3>1 DEF Completed
  <2>3. report # NoReport => report'.completed = Completed' /\ report'.results = result'
    BY <2>2 DEF Ends, ReflectionInv, RowsTell
  <2> QED
    BY <1>1, <1>2, <2>1, <2>3 DEF Ends, RowsTell
<1>7. BearerFollowsSection'
  BY <1>3 DEF BearerFollowsSection
<1>8. EndsStay
  BY <1>1, <1>2 DEF Ends, EndsStay
<1> QED
  BY <1>4, <1>5, <1>6, <1>7, <1>8 DEF ReflectionStep, ReflectionInv

\* A fatal failure of a task that has not ended otherwise.
LEMMA FatalHolds == ASSUME ReflectionInv, FatalFail PROVE ReflectionStep
<1>1. reflection.bound
  BY DEF FatalFail
<1>2. \A s \in Sections : PendingFailed[s].status \in Ending
  BY <1>1, PendingFailedTells
<1>3. Ends(PendingFailed, "FAILED")
  BY <1>2 DEF FatalFail, MayFail, Ends, Terminal
<1> QED
  BY <1>1, <1>3, EndHolds

\* Finalizing, with a summary or without.
LEMMA FinalizeHolds ==
  ASSUME ReflectionInv, NEW summary \in BOOLEAN, Finalize(summary)
  PROVE  ReflectionStep
<1> DEFINE rows == IF summary THEN PendingFailed ELSE section
<1>1. reflection.bound /\ reflection.status \in {"RUNNING", StatusOf(rows)}
  BY DEF Finalize
<1>2. StatusOf(rows) \in Terminal
  BY StatusOfIsTerminal
<1>3. Ends(rows, StatusOf(rows))
  BY <1>1, <1>2 DEF Finalize, Ends, Terminal
<1> QED
  BY <1>1, <1>3, EndHolds

-----------------------------------------------------------------------------
(* Steps of a section that runs.                                           *)

\* A step that leaves the task, the sections and the results alone, and gives no
\* section that does not run a live bearer nor any a second one.
KeepsRows ==
  /\ UNCHANGED <<reflection, section, result, report>>
  /\ stored' \in [Sections -> Nat] /\ bearer' \in [Sections -> Seq(Bearer)]
  /\ \A s \in Sections : stored'[s] # stored[s] => SectionRuns(s)
  /\ BearerFollowsSection'

LEMMA KeepsRowsHolds == ASSUME ReflectionInv, KeepsRows PROVE ReflectionStep
<1>1. RowTypes'
  BY DEF KeepsRows, ReflectionInv, RowTypes
<1>2. RowsComeTogether' /\ RowsTell'
  BY DEF KeepsRows, ReflectionInv, RowsComeTogether, RowsTell, StatusOf, Completed
<1>3. EndsStay
  <2>1. \A s \in Sections : section[s].status \in Ending => stored'[s] = stored[s]
    BY DEF KeepsRows, SectionRuns, Ending
  <2>2. reflection.status \in Terminal => stored' = stored
    BY DEF KeepsRows, SectionRuns, Terminal, ReflectionInv, RowTypes
  <2> QED
    BY <2>1, <2>2 DEF KeepsRows, EndsStay
<1> QED
  BY <1>1, <1>2, <1>3 DEF ReflectionStep, ReflectionInv, KeepsRows

\* What a sequence of bearers holds.
LEMMA BearerAt ==
  ASSUME NEW bs \in Seq(Bearer), NEW i \in DOMAIN bs
  PROVE  bs[i] \in Bearer
OBVIOUS

\* A sequence of bearers with another one in one place.
LEMMA BearerReplaced ==
  ASSUME NEW bs \in Seq(Bearer), NEW i \in DOMAIN bs, NEW b \in Bearer
  PROVE  [bs EXCEPT ![i] = b] \in Seq(Bearer) /\ DOMAIN [bs EXCEPT ![i] = b] = DOMAIN bs
<1>1. DOMAIN bs = 1 .. Len(bs) /\ Len(bs) \in Nat /\ bs \in [1 .. Len(bs) -> Bearer]
  OBVIOUS
<1>2. [bs EXCEPT ![i] = b] \in [1 .. Len(bs) -> Bearer]
  BY <1>1
<1> QED
  BY <1>1, <1>2

\* Another time of one bearer makes none live that was not.
LEMMA SameLive ==
  ASSUME ReflectionInv, NEW s \in Sections, NEW i \in DOMAIN bearer[s],
         NEW t \in {"fresh", "short over", "maximum over"},
         bearer' = [bearer EXCEPT ![s][i].time = t]
  PROVE  /\ bearer' \in [Sections -> Seq(Bearer)]
         /\ \A r \in Sections : LiveBearers(r)' = LiveBearers(r)
<1>1. bearer[s] \in Seq(Bearer) /\ bearer[s][i] \in Bearer
  <2>1. bearer[s] \in Seq(Bearer)
    BY DEF ReflectionInv, RowTypes
  <2> QED
    BY <2>1, BearerAt
<1>2. bearer'[s] = [bearer[s] EXCEPT ![i] = [bearer[s][i] EXCEPT !.time = t]]
  BY DEF ReflectionInv, RowTypes
<1>3. [bearer[s][i] EXCEPT !.time = t] \in Bearer
  BY <1>1 DEF Bearer
<1>4. bearer'[s] \in Seq(Bearer) /\ DOMAIN bearer'[s] = DOMAIN bearer[s]
  <2> DEFINE b == [bearer[s][i] EXCEPT !.time = t]
  <2>1. b \in Bearer /\ bearer'[s] = [bearer[s] EXCEPT ![i] = b]
    BY <1>2, <1>3
  <2> DEFINE bs == bearer[s]
  <2>2. bs \in Seq(Bearer) /\ i \in DOMAIN bs
    BY <1>1
  <2> HIDE DEF b, bs
  <2>3. [bs EXCEPT ![i] = b] \in Seq(Bearer) /\ DOMAIN [bs EXCEPT ![i] = b] = DOMAIN bs
    BY <2>1, <2>2, BearerReplaced
  <2> QED
    BY <2>1, <2>3 DEF bs
<1>5. \A j \in DOMAIN bearer[s] : bearer'[s][j].revoked = bearer[s][j].revoked
  BY <1>1, <1>2, <1>3 DEF Bearer
<1>6. \A r \in Sections : LiveBearers(r)' = LiveBearers(r)
  <2>1. ASSUME NEW r \in Sections, r # s PROVE bearer'[r] = bearer[r]
    BY <2>1 DEF ReflectionInv, RowTypes
  <2>2. LiveBearers(s)' = LiveBearers(s)
    BY <1>4, <1>5 DEF LiveBearers
  <2> QED
    BY <2>1, <2>2 DEF LiveBearers
<1>7. bearer' \in [Sections -> Seq(Bearer)]
  BY <1>4 DEF ReflectionInv, RowTypes
<1> QED
  BY <1>6, <1>7

\* So the bearers still follow their sections.
LEMMA TimeOfBearer ==
  ASSUME ReflectionInv, NEW s \in Sections, NEW i \in DOMAIN bearer[s],
         NEW t \in {"fresh", "short over", "maximum over"},
         bearer' = [bearer EXCEPT ![s][i].time = t],
         UNCHANGED <<reflection, section>>
  PROVE  bearer' \in [Sections -> Seq(Bearer)] /\ BearerFollowsSection'
<1>1. /\ bearer' \in [Sections -> Seq(Bearer)]
      /\ \A r \in Sections : LiveBearers(r)' = LiveBearers(r)
  BY SameLive
<1>2. \A r \in Sections : SectionRuns(r)' = SectionRuns(r)
  BY DEF SectionRuns
<1>3. BearerFollowsSection
  BY DEF ReflectionInv
<1>4. \A r \in Sections : \A j, k \in LiveBearers(r)' : j = k /\ SectionRuns(r)'
  BY <1>1, <1>2, <1>3 DEF BearerFollowsSection
<1> QED
  BY <1>1, <1>4 DEF BearerFollowsSection

\* A refreshed bearer.
LEMMA RefreshHolds ==
  ASSUME ReflectionInv, NEW s \in Sections, NEW i, Usable(s, i), Refreshed(s, i),
         UNCHANGED <<reflection, section, result, stored, report>>
  PROVE  ReflectionStep
<1>1. i \in DOMAIN bearer[s]
  BY DEF Usable, LiveBearers
<1>2. bearer' \in [Sections -> Seq(Bearer)] /\ BearerFollowsSection'
  BY <1>1, TimeOfBearer DEF Refreshed
<1>3. KeepsRows
  BY <1>2 DEF KeepsRows, ReflectionInv, RowTypes
<1> QED
  BY <1>3, KeepsRowsHolds

\* The clock.
LEMMA AgesHolds ==
  ASSUME ReflectionInv, NEW s \in Sections, NEW i \in DOMAIN bearer[s], BearerAges(s, i)
  PROVE  ReflectionStep
<1>1. PICK t \in {"short over", "maximum over"} : bearer' = [bearer EXCEPT ![s][i].time = t]
  BY DEF BearerAges
<1>2. bearer' \in [Sections -> Seq(Bearer)] /\ BearerFollowsSection'
  BY <1>1, TimeOfBearer DEF BearerAges
<1>3. KeepsRows
  BY <1>2 DEF KeepsRows, BearerAges, ReflectionInv, RowTypes
<1> QED
  BY <1>3, KeepsRowsHolds

\* A stored turn.
LEMMA StoreHolds ==
  ASSUME ReflectionInv, NEW s \in Sections, NEW i \in DOMAIN bearer[s], StoreTurn(s, i)
  PROVE  ReflectionStep
<1>1. SectionRuns(s)
  BY DEF StoreTurn, Resolves
<1>2. /\ stored' \in [Sections -> Nat]
      /\ \A r \in Sections : stored'[r] # stored[r] => r = s
  BY DEF StoreTurn, ReflectionInv, RowTypes
<1>3. BearerFollowsSection'
  BY DEF StoreTurn, ReflectionInv, BearerFollowsSection, LiveBearers, SectionRuns
<1>4. KeepsRows
  BY <1>1, <1>2, <1>3 DEF KeepsRows, StoreTurn, ReflectionInv, RowTypes
<1> QED
  BY <1>4, KeepsRowsHolds

\* The revocation of the bearers of one section.
LEMMA RevokedOf ==
  ASSUME ReflectionInv, NEW s \in Sections, bearer' = [bearer EXCEPT ![s] = Revoked(@)]
  PROVE  /\ bearer' \in [Sections -> Seq(Bearer)]
         /\ LiveBearers(s)' = {}
         /\ \A r \in Sections \ {s} : LiveBearers(r)' = LiveBearers(r)
<1>1. bearer[s] \in Seq(Bearer) /\ bearer'[s] = Revoked(bearer[s])
  BY DEF ReflectionInv, RowTypes
<1>2. LiveBearers(s)' = {} /\ bearer'[s] \in Seq(Bearer)
  BY <1>1, RevokedNone DEF LiveBearers
<1>3. \A r \in Sections \ {s} : bearer'[r] = bearer[r]
  BY DEF ReflectionInv, RowTypes
<1> QED
  BY <1>2, <1>3 DEF LiveBearers, ReflectionInv, RowTypes

\* An explicit revocation.
LEMMA RevokeHolds == ASSUME ReflectionInv, NEW s \in Sections, RevokeBearer(s) PROVE ReflectionStep
<1>1. /\ bearer' \in [Sections -> Seq(Bearer)] /\ LiveBearers(s)' = {}
      /\ \A r \in Sections \ {s} : LiveBearers(r)' = LiveBearers(r)
  BY RevokedOf DEF RevokeBearer
<1>2. BearerFollowsSection'
  BY <1>1 DEF RevokeBearer, ReflectionInv, BearerFollowsSection, SectionRuns
<1>3. KeepsRows
  BY <1>1, <1>2 DEF KeepsRows, RevokeBearer, ReflectionInv, RowTypes
<1> QED
  BY <1>3, KeepsRowsHolds

\* The beginning of a section, with its first live bearer or with the one there is.
LEMMA BeginHolds == ASSUME ReflectionInv, NEW s \in Sections, BeginSection(s) PROVE ReflectionStep
<1>1. /\ reflection.bound /\ reflection.status = "RUNNING"
      /\ section[s].status \in {"PENDING", "RUNNING"}
  BY DEF BeginSection
<1>2. /\ section' \in [Sections -> [status : {"none", "PENDING", "RUNNING"} \cup Ending, count : Nat]]
      /\ section'[s].status = "RUNNING" /\ section'[s].count = section[s].count
      /\ \A r \in Sections \ {s} : section'[r] = section[r]
  <2>1. section[s] \in [status : {"none", "PENDING", "RUNNING"} \cup Ending, count : Nat]
    BY DEF ReflectionInv, RowTypes
  <2> QED
    BY <2>1 DEF BeginSection, ReflectionInv, RowTypes
<1>3. /\ bearer' \in [Sections -> Seq(Bearer)]
      /\ \A i, j \in LiveBearers(s)' : i = j
      /\ \A r \in Sections \ {s} : LiveBearers(r)' = LiveBearers(r)
  <2> DEFINE bs == bearer[s]
  <2>1. bs \in Seq(Bearer)
    BY DEF ReflectionInv, RowTypes
  <2>2. CASE LiveBearers(s) = {} /\ bearer' = [bearer EXCEPT ![s] = Append(@, NewBearer)]
    <3>1. bearer'[s] = Append(bs, NewBearer) /\ NewBearer \in Bearer
      BY <2>2 DEF ReflectionInv, RowTypes, NewBearer, Bearer
    <3>2. \A i \in DOMAIN bs : bs[i].revoked
      BY <2>2 DEF LiveBearers
    <3> HIDE DEF bs
    <3>3. /\ Append(bs, NewBearer) \in Seq(Bearer)
          /\ \A i \in DOMAIN Append(bs, NewBearer) :
               i # Len(bs) + 1 => i \in DOMAIN bs /\ Append(bs, NewBearer)[i] = bs[i]
      BY <2>1, <3>1
    <3>4. \A i \in LiveBearers(s)' : i = Len(bs) + 1
      BY <3>1, <3>2, <3>3 DEF LiveBearers
    <3>5. \A r \in Sections \ {s} : bearer'[r] = bearer[r]
      BY <2>2 DEF ReflectionInv, RowTypes
    <3>6. bearer' \in [Sections -> Seq(Bearer)]
      BY <2>2, <3>1, <3>3, <3>5 DEF ReflectionInv, RowTypes
    <3> QED
      BY <3>4, <3>5, <3>6 DEF LiveBearers
  <2>3. CASE \E i \in LiveBearers(s) : Usable(s, i) /\ Refreshed(s, i)
    <3>1. PICK i \in LiveBearers(s) : Usable(s, i) /\ Refreshed(s, i)
      BY <2>3
    <3>2. i \in DOMAIN bearer[s]
      BY <3>1 DEF LiveBearers
    <3>3. /\ bearer' \in [Sections -> Seq(Bearer)]
          /\ \A r \in Sections : LiveBearers(r)' = LiveBearers(r)
      BY <3>1, <3>2, SameLive DEF Refreshed
    <3> QED
      BY <3>3 DEF ReflectionInv, BearerFollowsSection
  <2> QED
    BY <2>2, <2>3 DEF BeginSection
<1>4. RowTypes'
  BY <1>2, <1>3 DEF BeginSection, ReflectionInv, RowTypes
<1>5. RowsComeTogether'
  BY <1>1, <1>2 DEF BeginSection, ReflectionInv, RowsComeTogether, Terminal
<1>6. RowsTell'
  <2>1. report = NoReport
    BY <1>1 DEF ReflectionInv, RowsTell, Terminal
  <2>2. \A r \in Sections : /\ result[r] = section'[r].count
                            /\ section'[r].status # "COMPLETED" => section'[r].count = 0
    BY <1>1, <1>2 DEF ReflectionInv, RowsTell
  <2> QED
    BY <1>1, <2>1, <2>2 DEF BeginSection, RowsTell, Terminal
<1>7. BearerFollowsSection'
  BY <1>1, <1>2, <1>3 DEF BeginSection, ReflectionInv, BearerFollowsSection, SectionRuns
<1>8. EndsStay
  BY <1>1, <1>2 DEF BeginSection, EndsStay, Terminal, Ending
<1> QED
  BY <1>4, <1>5, <1>6, <1>7, <1>8 DEF ReflectionStep, ReflectionInv

\* The end of a section, with its results or without.
LEMMA FinishTurnHolds ==
  ASSUME ReflectionInv, NEW s \in Sections, NEW outcome \in Ending, NEW n \in 0 .. MaxResults,
         FinishSection(s, outcome, n)
  PROVE  ReflectionStep
<1>1. /\ reflection.bound /\ reflection.status = "RUNNING" /\ section[s].status = "RUNNING"
      /\ report = NoReport /\ n \in Nat
  BY ReflectionAssumption DEF FinishSection, SectionRuns, ReflectionInv, RowsTell, Terminal
<1>2. /\ section'[s] = [status |-> outcome, count |-> n]
      /\ section' \in [Sections -> [status : {"none", "PENDING", "RUNNING"} \cup Ending, count : Nat]]
      /\ \A r \in Sections \ {s} : section'[r] = section[r]
  BY <1>1 DEF FinishSection, ReflectionInv, RowTypes
<1>3. /\ result'[s] = n /\ result' \in [Sections -> Nat]
      /\ \A r \in Sections \ {s} : result'[r] = result[r]
      /\ outcome # "COMPLETED" => n = 0
  <2>1. CASE outcome = "COMPLETED" /\ result' = [result EXCEPT ![s] = n]
    BY <1>1, <2>1 DEF ReflectionInv, RowTypes
  <2>2. CASE outcome = "FAILED" /\ n = 0 /\ UNCHANGED result
    BY <1>1, <2>2 DEF ReflectionInv, RowTypes, RowsTell
  <2> QED
    BY <2>1, <2>2 DEF FinishSection
<1>4. /\ bearer' \in [Sections -> Seq(Bearer)] /\ LiveBearers(s)' = {}
      /\ \A r \in Sections \ {s} : LiveBearers(r)' = LiveBearers(r)
  BY RevokedOf DEF FinishSection, BearersAfter
<1>5. RowTypes'
  BY <1>2, <1>3, <1>4 DEF FinishSection, ReflectionInv, RowTypes
<1>6. RowsComeTogether'
  BY <1>1, <1>2 DEF FinishSection, ReflectionInv, RowsComeTogether, Ending
<1>7. RowsTell'
  <2>1. \A r \in Sections : /\ result'[r] = section'[r].count
                            /\ section'[r].status # "COMPLETED" => section'[r].count = 0
    BY <1>1, <1>2, <1>3 DEF ReflectionInv, RowsTell
  <2> QED
    BY <1>1, <2>1 DEF FinishSection, RowsTell, Terminal
<1>8. BearerFollowsSection'
  BY <1>2, <1>4 DEF FinishSection, ReflectionInv, BearerFollowsSection, SectionRuns
<1>9. EndsStay
  BY <1>1, <1>2, <1>3 DEF FinishSection, EndsStay, Terminal, Ending
<1> QED
  BY <1>5, <1>6, <1>7, <1>8, <1>9 DEF ReflectionStep, ReflectionInv

\* The report, which is written once.
LEMMA ReportHolds == ASSUME ReflectionInv, EnsureReport PROVE ReflectionStep
<1> USE DEF EnsureReport
<1>1. RowTypes' /\ RowsComeTogether'
  BY DEF ReflectionInv, RowTypes, RowsComeTogether
<1>2. RowsTell'
  BY DEF ReflectionInv, RowsTell, StatusOf, Completed
<1>3. BearerFollowsSection'
  BY DEF ReflectionInv, BearerFollowsSection, LiveBearers, SectionRuns
<1>4. EndsStay
  BY DEF EndsStay
<1> QED
  BY <1>1, <1>2, <1>3, <1>4 DEF ReflectionStep, ReflectionInv

\* Whatever is done next.
LEMMA ReflectionNextHolds == ReflectionInv /\ [ReflectionNext]_reflectionVars => ReflectionInv' /\ [EndsStay]_reflectionVars
<1> SUFFICES ASSUME ReflectionInv, [ReflectionNext]_reflectionVars
             PROVE  ReflectionInv' /\ [EndsStay]_reflectionVars
  OBVIOUS
<1>1. ASSUME ReflectionNext PROVE ReflectionStep
  <2>1. CASE CreateReflection \/ StartReflection \/ LoadWorker
    BY <2>1, TaskCreateHolds, StartHolds, LoadHolds
  <2>2. ASSUME NEW st \in DOMAIN StageFrom, Advance(st) PROVE ReflectionStep
    BY <2>2, TaskAdvanceHolds
  <2>3. CASE FatalFail
    BY <2>3, FatalHolds
  <2>4. ASSUME NEW summary \in BOOLEAN, Finalize(summary) PROVE ReflectionStep
    BY <2>4, FinalizeHolds
  <2>5. ASSUME NEW s \in Sections,
               \/ BeginSection(s) \/ RenewBearer(s) \/ RevokeBearer(s)
               \/ \E i \in DOMAIN bearer[s] :
                    RecoverBearer(s, i) \/ StoreTurn(s, i) \/ BearerAges(s, i)
               \/ \E outcome \in Ending, n \in 0 .. MaxResults : FinishSection(s, outcome, n)
        PROVE  ReflectionStep
    <3>1. CASE BeginSection(s)
      BY <3>1, BeginHolds
    <3>2. CASE RenewBearer(s)
      <4>1. PICK i \in LiveBearers(s) : Usable(s, i) /\ Refreshed(s, i)
        BY <3>2 DEF RenewBearer
      <4>2. UNCHANGED <<reflection, section, result, stored, report>>
        BY <3>2 DEF RenewBearer
      <4> QED
        BY <4>1, <4>2, RefreshHolds
    <3>3. CASE RevokeBearer(s)
      BY <3>3, RevokeHolds
    <3>4. ASSUME NEW i \in DOMAIN bearer[s],
                 RecoverBearer(s, i) \/ StoreTurn(s, i) \/ BearerAges(s, i)
          PROVE  ReflectionStep
      <4>1. CASE RecoverBearer(s, i)
        BY <4>1, RefreshHolds DEF RecoverBearer
      <4>2. CASE StoreTurn(s, i)
        BY <4>2, StoreHolds
      <4>3. CASE BearerAges(s, i)
        BY <4>3, AgesHolds
      <4> QED
        BY <3>4, <4>1, <4>2, <4>3
    <3>5. ASSUME NEW outcome \in Ending, NEW n \in 0 .. MaxResults, FinishSection(s, outcome, n)
          PROVE  ReflectionStep
      BY <3>5, FinishTurnHolds
    <3> QED
      BY <2>5, <3>1, <3>2, <3>3, <3>4, <3>5
  <2>6. CASE EnsureReport
    BY <2>6, ReportHolds
  <2> QED
    BY <1>1, <2>1, <2>2, <2>3, <2>4, <2>5, <2>6 DEF ReflectionNext
<1>2. ASSUME UNCHANGED reflectionVars PROVE ReflectionInv'
  <2>1. UNCHANGED <<reflection, section, result, bearer, stored, report>>
    BY <1>2 DEF reflectionVars
  <2> QED
    BY <2>1 DEF ReflectionInv, RowTypes, RowsComeTogether, RowsTell, BearerFollowsSection,
                StatusOf, Completed, LiveBearers, SectionRuns
<1> QED
  BY <1>1, <1>2 DEF ReflectionStep

\* The invariant holds always, and an end is final in every step.
LEMMA ReflectionAlways == ReflectionSpec => []ReflectionInv /\ [][EndsStay]_reflectionVars
<1>1. ReflectionInit => ReflectionInv
  BY ReflectionInitHolds
<1>2. ReflectionInv /\ [ReflectionNext]_reflectionVars => ReflectionInv' /\ [EndsStay]_reflectionVars
  BY ReflectionNextHolds
<1> QED
  BY <1>1, <1>2, PTL DEF ReflectionSpec

-----------------------------------------------------------------------------
(* The theorems.                                                           *)

\* A live bearer belongs to a running section of a running task, and is its only one:
\* finishing, failing, finalizing and revoking take the bearers with them.
THEOREM BearersAlwaysFollow == ReflectionSpec => []BearerFollowsSection
<1>1. ReflectionInv => BearerFollowsSection
  BY DEF ReflectionInv
<1> QED
  BY <1>1, ReflectionAlways, PTL

\* The status of an ended task, the rows of results and the report are those its
\* sections tell.
THEOREM TasksAlwaysTell == ReflectionSpec => []TaskTellsSections
<1>1. ReflectionInv => TaskTellsSections
  <2> SUFFICES ASSUME ReflectionInv PROVE TaskTellsSections
    OBVIOUS
  <2>1. CASE reflection.bound
    BY <2>1 DEF ReflectionInv, RowsTell, TaskTellsSections
  <2>2. CASE ~ reflection.bound
    <3>1. /\ \A s \in Sections : section[s].status = "none"
          /\ reflection.status \in Terminal => reflection.old
          /\ report = NoReport
      BY <2>2 DEF ReflectionInv, RowsComeTogether, Terminal
    <3> QED
      BY <3>1 DEF TaskTellsSections
  <2> QED
    BY <2>1, <2>2
<1> QED
  BY <1>1, ReflectionAlways, PTL

\* What a task, a section or a report ended with is final, whoever comes late.
THEOREM FirstWriterAlwaysWins == ReflectionSpec => FirstWriterWins
BY ReflectionAlways, PTL DEF FirstWriterWins
=============================================================================
