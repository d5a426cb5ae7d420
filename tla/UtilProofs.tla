------------------------------ MODULE UtilProofs ------------------------------
(***************************************************************************)
(* Proofs about two parts of Util that share nothing.                      *)
(*                                                                         *)
(* Stripe: the free list of a stripe group, for every size of the group.   *)
(* The inductive invariant says that some sequence is the list: New takes  *)
(* its head off, Del puts one in front, and a write touches only held      *)
(* elements, which are not in it.  FreeListExact adds how long the list    *)
(* is: it maps its positions one to one to the free elements.              *)
(*                                                                         *)
(* DebugConsole: its two safety invariants, and that its steps implement   *)
(* those of BreakPointSpec, for every set of modes and any number of       *)
(* spurious wakeups.  TypeOK is inductive by itself: it says               *)
(* who holds which mutex.  LinkMeansStopped needs NotReadyMeansStopped:    *)
(* whichever row is rendered next, a false ready means the main thread is  *)
(* stopped there, since only Leave takes it out and Leave waits for ready. *)
(***************************************************************************)
EXTENDS Stripe, DebugConsole, FiniteSetTheorems, FunctionTheorems, TLAPS

-----------------------------------------------------------------------------
(* Stripe.                                                                 *)

FList == FreeListOf(Seq(Slot))
IInv == StripeTypeOK /\ FList

(* The list starts with every element in order. *)
LEMMA StripeStart == StripeInit => IInv
<1> SUFFICES ASSUME StripeInit PROVE IInv
  OBVIOUS
<1> USE MaxAssumption DEF StripeInit, Slot, Word
<1> DEFINE s == [i \in 1..(max_instances - 1) |-> i]
<1>1. StripeTypeOK BY DEF StripeTypeOK
<1>2. s \in Seq(Slot) /\ Len(s) = max_instances - 1
  OBVIOUS
<1>3. \A i \in 1..(max_instances - 1) : s[i] = i
  BY <1>2
<1> HIDE DEF s
<1>4. Links(s)
  <2>1. first_free = IF Len(s) = 0 THEN 0 ELSE s[1]
    BY <1>2, <1>3
  <2>2. ASSUME NEW i \in 1..Len(s)
        PROVE word[s[i]] = IF i = Len(s) THEN 0 ELSE s[i + 1]
    <3>1. s[i] = i /\ (i # Len(s) => s[i + 1] = i + 1) BY <1>2, <1>3
    <3> QED BY <1>2, <3>1
  <2> QED BY <2>1, <2>2 DEF Links
<1>5. ListsFree(s) BY <1>2, <1>3 DEF ListsFree
<1> QED BY <1>1, <1>2, <1>4, <1>5 DEF IInv, FList, FreeListOf

(* New takes the head off the list. *)
LEMMA NewKeeps == IInv /\ New => IInv'
<1> SUFFICES ASSUME IInv, New PROVE IInv'
  OBVIOUS
<1> USE MaxAssumption DEF Slot, Word
<1>1. PICK s \in Seq(Slot) : Links(s) /\ ListsFree(s)
  BY DEF IInv, FList, FreeListOf
<1> DEFINE n == Len(s) - 1
           t == [i \in 1..n |-> s[i + 1]]
<1>2. Len(s) \in Nat /\ Len(s) > 0 /\ first_free = s[1] /\ \A i \in 1..Len(s) : s[i] \in Slot
  BY <1>1 DEF New, Links
<1>3. n \in Nat /\ t \in Seq(Slot) /\ Len(t) = n
  BY <1>2
<1>4. \A i \in 1..n : t[i] = s[i + 1]
  OBVIOUS
<1>5. word' = word /\ first_free' = word[s[1]] /\ held' = held \cup {s[1]}
  BY <1>2 DEF New
<1>6. StripeTypeOK' BY DEF IInv, StripeTypeOK, New
<1>7. Links(t)'
  <2>1. first_free' = IF n = 0 THEN 0 ELSE t[1]
    <3>1. 1 \in 1..Len(s) BY <1>2
    <3>2. word[s[1]] = IF 1 = Len(s) THEN 0 ELSE s[2]
      <4>1. word[s[1]] = IF 1 = Len(s) THEN 0 ELSE s[1 + 1]
        <5>1. \A i \in 1..Len(s) : word[s[i]] = IF i = Len(s) THEN 0 ELSE s[i + 1]
          BY <1>1 DEF Links
        <5> QED BY <3>1, <5>1
      <4> QED BY <4>1
    <3>3. n # 0 => t[1] = s[2]
      <4>1. n # 0 => 1 \in 1..n BY <1>3
      <4> QED BY <1>4, <4>1
    <3> QED BY <1>2, <1>5, <3>2, <3>3
  <2>2. ASSUME NEW i \in 1..n PROVE word'[t[i]] = IF i = n THEN 0 ELSE t[i + 1]
    <3>1. i + 1 \in 1..Len(s) BY <1>2
    <3>2. word[s[i + 1]] = IF i + 1 = Len(s) THEN 0 ELSE s[i + 2] BY <1>1, <3>1 DEF Links
    <3>3. i # n => t[i + 1] = s[i + 2] BY <1>2
    <3> QED BY <1>2, <1>4, <1>5, <3>1, <3>2, <3>3
  <2> HIDE DEF t
  <2> QED BY <1>3, <2>1, <2>2 DEF Links
<1>8. ListsFree(t)'
  <2>1. \A i, j \in 1..n : t[i] = t[j] => i = j
    BY <1>1, <1>2, <1>3 DEF ListsFree
  <2>2. ASSUME NEW g \in Slot PROVE g \notin held' <=> \E i \in 1..n : t[i] = g
    <3>1. g \notin held <=> \E i \in 1..Len(s) : s[i] = g BY <1>1 DEF ListsFree
    <3>2. ASSUME NEW i \in 1..Len(s), s[i] = g, g # s[1] PROVE \E j \in 1..n : t[j] = g
      <4>1. i - 1 \in 1..n /\ t[i - 1] = g BY <1>2, <3>2
      <4> QED BY <4>1
    <3>3. ASSUME NEW j \in 1..n, t[j] = g
          PROVE g # s[1] /\ \E i \in 1..Len(s) : s[i] = g
      <4>1. j + 1 \in 1..Len(s) /\ 1 \in 1..Len(s) /\ s[j + 1] = g BY <1>2, <1>4, <3>3
      <4>2. s[j + 1] # s[1] BY <1>1, <4>1 DEF ListsFree
      <4> QED BY <4>1, <4>2
    <3> QED BY <1>5, <3>1, <3>2, <3>3
  <2> QED BY <1>3, <2>1, <2>2 DEF ListsFree
<1> QED BY <1>3, <1>6, <1>7, <1>8 DEF IInv, FList, FreeListOf

(* Del puts the element in front of the list. *)
LEMMA DelKeeps == ASSUME IInv, NEW h \in Slot, Del(h) PROVE IInv'
<1> USE MaxAssumption DEF Slot, Word
<1>1. PICK s \in Seq(Slot) : Links(s) /\ ListsFree(s)
  BY DEF IInv, FList, FreeListOf
<1> DEFINE n == Len(s)
           t == [i \in 1..(n + 1) |-> IF i = 1 THEN h ELSE s[i - 1]]
<1>2. n \in Nat /\ \A i \in 1..n : s[i] \in Slot OBVIOUS
<1>3. t \in Seq(Slot) /\ Len(t) = n + 1 BY <1>2
<1>4. t[1] = h /\ \A i \in 1..n : t[i + 1] = s[i] BY <1>2
<1>5. \A i \in 1..n : s[i] # h
  BY <1>1, <1>2 DEF Del, ListsFree
<1>6. word' = [word EXCEPT ![h] = first_free] /\ first_free' = h /\ held' = held \ {h}
  BY DEF Del
<1>7. StripeTypeOK' BY <1>6 DEF IInv, StripeTypeOK, Del
<1>8. Links(t)'
  <2>1. first_free' = IF n + 1 = 0 THEN 0 ELSE t[1]
    BY <1>2, <1>4, <1>6
  <2>2. ASSUME NEW i \in 1..(n + 1)
        PROVE word'[t[i]] = IF i = n + 1 THEN 0 ELSE t[i + 1]
    <3>1. CASE i = 1
      <4>1. word'[t[1]] = first_free BY <1>4, <1>6 DEF IInv, StripeTypeOK
      <4>2. first_free = IF n = 0 THEN 0 ELSE s[1] BY <1>1 DEF Links
      <4> QED BY <1>2, <1>4, <3>1, <4>1, <4>2
    <3>2. CASE i # 1
      <4>1. i - 1 \in 1..n /\ t[i] = s[i - 1] BY <1>2, <3>2
      <4>2. word'[t[i]] = word[s[i - 1]] BY <1>2, <1>5, <1>6, <4>1 DEF IInv, StripeTypeOK
      <4>3. word[s[i - 1]] = IF i - 1 = n THEN 0 ELSE s[i] BY <1>1, <4>1 DEF Links
      <4> QED BY <1>2, <1>4, <3>2, <4>1, <4>2, <4>3
    <3> QED BY <3>1, <3>2
  <2> QED BY <1>3, <2>1, <2>2 DEF Links
<1>9. ListsFree(t)'
  <2>1. \A i, j \in 1..(n + 1) : t[i] = t[j] => i = j
    BY <1>1, <1>2, <1>5 DEF ListsFree
  <2>2. ASSUME NEW g \in Slot PROVE g \notin held' <=> \E i \in 1..(n + 1) : t[i] = g
    <3>1. g \notin held <=> \E i \in 1..n : s[i] = g BY <1>1 DEF ListsFree
    <3>2. ASSUME NEW i \in 1..n, s[i] = g PROVE \E j \in 1..(n + 1) : t[j] = g
      <4>1. i + 1 \in 1..(n + 1) /\ t[i + 1] = g BY <1>2, <1>4, <3>2
      <4> QED BY <4>1
    <3>3. ASSUME NEW j \in 1..(n + 1), t[j] = g PROVE g = h \/ \E i \in 1..n : s[i] = g
      <4>1. CASE j = 1 BY <1>4, <3>3, <4>1
      <4>2. CASE j # 1
        <5>1. j - 1 \in 1..n /\ s[j - 1] = g BY <1>2, <3>3, <4>2
        <5> QED BY <5>1
      <4> QED BY <4>1, <4>2
    <3>4. 1 \in 1..(n + 1) /\ t[1] = h BY <1>2, <1>4
    <3> QED BY <1>6, <3>1, <3>2, <3>3, <3>4
  <2> QED BY <1>3, <2>1, <2>2 DEF ListsFree
<1> QED BY <1>3, <1>7, <1>8, <1>9 DEF IInv, FList, FreeListOf

(* A write touches held elements, and none of them is in the list. *)
LEMMA WriteKeeps == IInv /\ Write => IInv'
<1> SUFFICES ASSUME IInv, Write PROVE IInv'
  OBVIOUS
<1> USE MaxAssumption DEF Slot, Word
<1>1. PICK s \in Seq(Slot) : Links(s) /\ ListsFree(s)
  BY DEF IInv, FList, FreeListOf
<1>2. \A i \in 1..Len(s) : s[i] \in Slot \ held
  BY <1>1 DEF ListsFree
<1>3. StripeTypeOK' BY DEF IInv, StripeTypeOK, Write
<1>4. Links(s)'
  <2>1. \A i \in 1..Len(s) : word'[s[i]] = word[s[i]]
    BY <1>2 DEF Write
  <2> QED BY <1>1, <2>1 DEF Write, Links
<1>5. ListsFree(s)' BY <1>1 DEF Write, ListsFree
<1> QED BY <1>1, <1>3, <1>4, <1>5 DEF IInv, FList, FreeListOf

(* Every step keeps the inductive invariant. *)
LEMMA StripeKeeps == IInv /\ [StripeNext]_group => IInv'
<1> SUFFICES ASSUME IInv, [StripeNext]_group PROVE IInv'
  OBVIOUS
<1>1. CASE UNCHANGED group
  BY <1>1 DEF group, IInv, StripeTypeOK, FList, FreeListOf, Links, ListsFree
<1>2. CASE StripeNext BY <1>2, NewKeeps, DelKeeps, WriteKeeps DEF StripeNext
<1> QED BY <1>1, <1>2
(* A list of the free elements without repetitions has as many. *)
LEMMA ListIsExact ==
  ASSUME NEW s \in Seq(Slot), ListsFree(s)
  PROVE  s \in [1..Cardinality(Slot \ held) -> Slot]
<1> USE MaxAssumption DEF Slot
<1> DEFINE n == Len(s)
           F == Slot \ held
<1>1. n \in Nat /\ s \in [1..n -> Slot] OBVIOUS
<1>2. s \in Bijection(1..n, F)
  <2>1. s \in [1..n -> F] BY <1>1 DEF ListsFree
  <2>2. \A a, b \in 1..n : s[a] = s[b] => a = b BY DEF ListsFree
  <2>3. \A t \in F : \E a \in 1..n : s[a] = t BY DEF ListsFree
  <2>4. DOMAIN s = 1..n BY <1>1
  <2>5. IsInjective(s) BY <2>2, <2>4 DEF IsInjective
  <2>6. s \in Injection(1..n, F) BY <2>1, <2>5 DEF Injection
  <2>7. s \in Surjection(1..n, F) BY <2>1, <2>3 DEF Surjection
  <2> QED BY <2>6, <2>7 DEF Bijection
<1>3. IsFiniteSet(1..n) /\ Cardinality(1..n) = n
  <2>1. ASSUME NEW m \in Nat PROVE IsFiniteSet(1..m) /\ Cardinality(1..m) = m BY FS_Interval
  <2> QED BY <1>1, <2>1
<1>4. Cardinality(F) = n
  <2>1. ExistsBijection(1..n, F) BY <1>2 DEF ExistsBijection
  <2> HIDE DEF F
  <2> QED BY <1>3, <2>1, FS_Bijection
<1> QED BY <1>1, <1>4

(* What the inductive invariant is for. *)
LEMMA Implies == IInv => StripeTypeOK /\ FreeListExact
BY ListIsExact DEF IInv, FList, FreeListOf, FreeListExact

(***************************************************************************)
(* Whatever the program writes into the elements it holds, the free list   *)
(* of a group of any size holds exactly the others, each once.             *)
(***************************************************************************)
THEOREM FreeListIsExact == StripeSpec => []FreeListExact
BY StripeStart, StripeKeeps, Implies, PTL DEF StripeSpec

(***************************************************************************)
(* A group of any size implements the pool: New never returns an element   *)
(* that somebody holds.                                                    *)
(***************************************************************************)
THEOREM NewReturnsFreeElements == StripeSpec => ImplementsPool
<1>1. StripeInit => Pool!Init
  BY DEF StripeInit, Pool!Init
<1>2. IInv /\ [StripeNext]_group => [Pool!Next]_<<held, out>>
  <2> SUFFICES ASSUME IInv, [StripeNext]_group PROVE [Pool!Next]_<<held, out>>
    OBVIOUS
  <2>1. CASE New
    <3>1. PICK s \in Seq(Slot) : Links(s) /\ ListsFree(s)
      BY DEF IInv, FList, FreeListOf
    <3>2. Len(s) \in Nat /\ Len(s) # 0 /\ s[1] = first_free
      BY <2>1, <3>1 DEF New, Links
    <3>3. first_free \in Slot \ held
      BY <3>1, <3>2 DEF ListsFree
    <3> QED BY <2>1, <3>3 DEF New, Pool!Next, Pool!New
  <2>2. ASSUME NEW h \in Slot, Del(h) PROVE Pool!Next
    BY <2>2 DEF Del, Pool!Next, Pool!Del
  <2>3. CASE Write BY <2>3 DEF Write
  <2>4. CASE UNCHANGED group BY <2>4 DEF group
  <2> QED BY <2>1, <2>2, <2>3, <2>4 DEF StripeNext
<1> QED BY <1>1, <1>2, StripeStart, StripeKeeps, PTL DEF StripeSpec, ImplementsPool, Pool!Spec

-----------------------------------------------------------------------------
(* DebugConsole.                                                           *)

(* The rows still to be rendered are breakpoints, and no request is served *)
(* before the server runs.  Only while main is about to set the handler    *)
(* can the server's failure abort the process.  Only a breakpoint stopped  *)
(* at is not ready.                                                        *)
RowsOK == rows \in Seq(BP)
NotYetServing ==
  /\ main = "parsed" => server = "off"
  /\ server # "off" /\ handler = "abort" => main = "launched"
NotReadyMeansStopped == \A b \in BP : ~ready[b] => StoppedAt(b)
SInv == TypeOK /\ NotReadyMeansStopped /\ RowsOK /\ NotYetServing /\ LinkMeansStopped

(* Both invariants and their support hold initially. *)
LEMMA ConsoleStart == Init => SInv
BY ModeAssumption, NoneAssumption
   DEF Init, SInv, TypeOK, RowsOK, NotYetServing, LinkMeansStopped,
        NotReadyMeansStopped, InBreak

(* No step of the main thread disturbs them. *)
LEMMA MainKeeps == SInv /\ (MainStep \/ WakeSpuriously) => SInv'
<1> SUFFICES ASSUME SInv, MainStep \/ WakeSpuriously PROVE SInv'
  OBVIOUS
<1> USE NoneAssumption, ModeAssumption
    DEF SInv, TypeOK, RowsOK, NotYetServing, LinkMeansStopped,
        NotReadyMeansStopped, StoppedAt, InBreak,
        switches, mainVars, serverVars, Goto, Enter, End
<1>1. CASE LaunchServer BY <1>1 DEF LaunchServer
<1>2. CASE AfterLoad BY <1>2 DEF AfterLoad, BP
<1>3. CASE Work BY <1>3 DEF Work
<1>4. CASE WorkFails BY <1>4 DEF WorkFails
<1>5. CASE ReturnEarly BY <1>5 DEF ReturnEarly
<1>6. CASE AtEnd BY <1>6 DEF AtEnd, BP
<1>7. CASE Lock BY <1>7 DEF Lock
<1>8. CASE Clear BY <1>8 DEF Clear
<1>9. CASE Wait BY <1>9 DEF Wait
<1>10. CASE Relock BY <1>10 DEF Relock
<1>11. CASE Leave BY <1>11 DEF Leave
<1>12. CASE WakeSpuriously BY <1>12 DEF WakeSpuriously
<1>13. CASE SetAbortHandler BY <1>13 DEF SetAbortHandler
<1> QED BY <1>1, <1>2, <1>3, <1>4, <1>5, <1>6, <1>7, <1>8, <1>9, <1>10,
           <1>11, <1>12, <1>13 DEF MainStep

(* Nor does a request, a step of the server thread or its failure. *)
LEMMA ServerKeeps == SInv /\ (ServerStep \/ Request \/ ServerFails) => SInv'
<1> SUFFICES ASSUME SInv, ServerStep \/ Request \/ ServerFails PROVE SInv'
  OBVIOUS
<1> USE NoneAssumption, ModeAssumption
    DEF SInv, TypeOK, RowsOK, NotYetServing, LinkMeansStopped,
        NotReadyMeansStopped, StoppedAt, InBreak,
        switches, mainVars, serverVars
<1>1. CASE RenderRow BY <1>1 DEF RenderRow
<1>2. CASE Rendered BY <1>2 DEF Rendered
<1>3. CASE ResumeLock BY <1>3 DEF ResumeLock
<1>4. CASE ResumeSet BY <1>4 DEF ResumeSet
<1>5. CASE ResumeNotify BY <1>5 DEF ResumeNotify
<1>6. CASE Respond BY <1>6 DEF Respond
<1>7. CASE AcceptPage BY <1>7 DEF AcceptPage, AllBreakPoints, BP
<1>8. CASE AcceptOther BY <1>8 DEF AcceptOther
<1>9. ASSUME NEW b \in BP, AcceptResume(b) PROVE SInv'
  BY <1>9 DEF AcceptResume
<1>10. CASE Listen BY <1>10 DEF Listen
<1>11. CASE ServerFails BY <1>11 DEF ServerFails, End, Goto
<1> QED BY <1>1, <1>2, <1>3, <1>4, <1>5, <1>6, <1>7, <1>8, <1>9, <1>10, <1>11
        DEF ServerStep, Request

(* Every step of the tool keeps the support of both theorems. *)
LEMMA ConsoleKeeps == SInv /\ [Next]_vars => SInv'
<1>1. SInv /\ UNCHANGED vars => SInv'
  BY DEF vars, SInv, TypeOK, RowsOK, NotYetServing, LinkMeansStopped,
        NotReadyMeansStopped, StoppedAt,
         switches, mainVars, serverVars
<1> QED BY <1>1, MainKeeps, ServerKeeps DEF Next

(***************************************************************************)
(* Each mutex is held exactly by the thread that is between its lock and   *)
(* its unlock (Break or Resume), whatever the switches and the requests.   *)
(***************************************************************************)
THEOREM MutexesHeldAsWritten == Spec => []TypeOK
<1>1. SInv => TypeOK BY DEF SInv
<1> QED BY <1>1, ConsoleStart, ConsoleKeeps, PTL DEF Spec

(***************************************************************************)
(* The page reads ready without the lock, and yet every Resume link it     *)
(* shows names a breakpoint the main thread is stopped at.                 *)
(***************************************************************************)
THEOREM ResumeLinksExact == Spec => []LinkMeansStopped
<1>1. SInv => LinkMeansStopped BY DEF SInv
<1> QED BY <1>1, ConsoleStart, ConsoleKeeps, PTL DEF Spec

-----------------------------------------------------------------------------
(* The breakpoints are passed in the order in which main hits them, each   *)
(* once; so the one main is in has not been passed.                        *)
PassedInOrder ==
  /\ main \in {"parsed", "launched", "loaded"} \/ at = "after_load" => passed = {}
  /\ main \in {"work", "emitted"} \/ at = "before_exit" => "before_exit" \notin passed
RInv == SInv /\ PassedInOrder

(* The order holds initially and every step keeps it. *)
LEMMA OrderKept == (Init => RInv) /\ (RInv /\ [Next]_vars => RInv')
<1>1. Init => RInv
  BY ConsoleStart, NoneAssumption DEF RInv, PassedInOrder, Init
<1>2. ASSUME RInv, [Next]_vars PROVE PassedInOrder'
  <2> USE <1>2, NoneAssumption
      DEF RInv, SInv, TypeOK, PassedInOrder, InBreak, BP,
          switches, mainVars, serverVars, Goto, Enter, End
  <2>1. CASE UNCHANGED vars BY <2>1 DEF vars
  <2>2. CASE LaunchServer \/ SetAbortHandler BY <2>2 DEF LaunchServer, SetAbortHandler
  <2>3. CASE AfterLoad BY <2>3 DEF AfterLoad
  <2>4. CASE Work \/ WorkFails \/ ReturnEarly BY <2>4 DEF Work, WorkFails, ReturnEarly
  <2>5. CASE AtEnd BY <2>5 DEF AtEnd
  <2>6. CASE Lock \/ Clear \/ Wait \/ Relock \/ WakeSpuriously
    BY <2>6 DEF Lock, Clear, Wait, Relock, WakeSpuriously
  <2>7. CASE Leave BY <2>7 DEF Leave
  <2>8. CASE ServerStep
    BY <2>8 DEF ServerStep, Listen, RenderRow, Rendered, ResumeLock, ResumeSet, ResumeNotify, Respond
  <2>9. CASE Request BY <2>9 DEF Request, AcceptPage, AcceptOther, AcceptResume
  <2>10. CASE ServerFails BY <2>10 DEF ServerFails
  <2> QED BY <2>1, <2>2, <2>3, <2>4, <2>5, <2>6, <2>7, <2>8, <2>9, <2>10 DEF Next, MainStep
<1> QED BY <1>1, <1>2, ConsoleKeeps DEF RInv

(* What a step does to the phase of one breakpoint, the others staying.    *)
Only(b, from, to) ==
  /\ PhaseOf(b) = from /\ PhaseOf(b)' = to
  /\ \A c \in BP \ {b} : PhaseOf(c)' = PhaseOf(c)
NoneMoves == \A c \in BP : PhaseOf(c)' = PhaseOf(c)

(* Such a change is a move of the abstract breakpoint.                     *)
LEMMA OnlyIsMove ==
  ASSUME NEW b \in BP, NEW from, NEW to, Only(b, from, to)
  PROVE  Abstract!Move(b, from, to)
BY DEF Only, Phases, Abstract!Move

(* No change is a stuttering step.                                         *)
LEMMA NoneIsStutter == NoneMoves => UNCHANGED Phases
BY DEF NoneMoves, Phases

(* Three steps move a breakpoint: the main thread clears ready (Break), a  *)
(* request sets it (Resume), and the main thread leaves (Pass).            *)
Moves(b) == Only(b, "idle", "stopped") \/ Only(b, "stopped", "released") \/ Only(b, "released", "passed")

(* Every other step leaves all of them alone.                              *)
LEMMA Effects == RInv /\ [Next]_vars => NoneMoves \/ \E b \in BP : Moves(b)
<1> SUFFICES ASSUME RInv, [Next]_vars PROVE NoneMoves \/ \E b \in BP : Moves(b)
  OBVIOUS
<1> USE NoneAssumption
    DEF RInv, SInv, TypeOK, PassedInOrder, NotReadyMeansStopped, InBreak,
        NotYetServing, switches, mainVars, serverVars, Goto, Enter, End, PhaseOf, StoppedAt, NoneMoves
<1>1. ASSUME NEW b \in BP, at = b, Clear PROVE Only(b, "idle", "stopped")
  <2>1. PhaseOf(b) = "idle" BY <1>1 DEF Clear, BP
  <2>2. PhaseOf(b)' = "stopped" BY <1>1 DEF Clear, BP
  <2>3. \A c \in BP \ {b} : PhaseOf(c)' = PhaseOf(c) BY <1>1 DEF Clear
  <2> QED BY <2>1, <2>2, <2>3 DEF Only
<1>2. ASSUME NEW b \in BP, req = b, ResumeSet PROVE Only(b, "stopped", "released") \/ NoneMoves
  <2>1. \A c \in BP \ {b} : PhaseOf(c)' = PhaseOf(c) BY <1>2 DEF ResumeSet
  <2>2. PhaseOf(b) = "stopped" => PhaseOf(b)' = "released" BY <1>2 DEF ResumeSet
  <2>3. PhaseOf(b) # "stopped" => PhaseOf(b)' = PhaseOf(b) BY <1>2 DEF ResumeSet
  <2> QED BY <2>1, <2>2, <2>3 DEF Only
<1>3. ASSUME NEW b \in BP, at = b, Leave PROVE Only(b, "released", "passed")
  <2>1. PhaseOf(b) = "released" BY <1>3 DEF Leave, BP
  <2>2. PhaseOf(b)' = "passed" BY <1>3 DEF Leave
  <2>3. \A c \in BP \ {b} : PhaseOf(c)' = PhaseOf(c) BY <1>3 DEF Leave
  <2> QED BY <2>1, <2>2, <2>3 DEF Only
<1>4. CASE LaunchServer \/ SetAbortHandler \/ AfterLoad \/ Work \/ WorkFails \/ ReturnEarly \/ AtEnd
  BY <1>4 DEF LaunchServer, SetAbortHandler, AfterLoad, Work, WorkFails, ReturnEarly, AtEnd
<1>5. CASE Lock \/ Wait \/ Relock \/ WakeSpuriously
  BY <1>5 DEF Lock, Wait, Relock, WakeSpuriously
<1>6. CASE Listen \/ RenderRow \/ Rendered \/ ResumeLock \/ ResumeNotify \/ Respond
  BY <1>6 DEF Listen, RenderRow, Rendered, ResumeLock, ResumeNotify, Respond
<1>7. CASE Request BY <1>7 DEF Request, AcceptPage, AcceptOther, AcceptResume
<1>8. CASE UNCHANGED vars BY <1>8 DEF vars
<1>9. (Clear \/ Leave => at \in BP) /\ (ResumeSet => req \in BP)
  BY DEF Clear, Leave, ResumeSet
<1>10. CASE ServerFails BY <1>10 DEF ServerFails
<1> QED BY <1>1, <1>2, <1>3, <1>4, <1>5, <1>6, <1>7, <1>8, <1>9, <1>10, Zenon
        DEF Next, MainStep, ServerStep, Moves

(* So each step of the tool is a step of the abstract breakpoints.         *)
LEMMA StepsMap == RInv /\ [Next]_vars => [Abstract!Next]_Phases
<1>1. ASSUME NEW b \in BP, Moves(b) PROVE Abstract!Next
  BY <1>1, OnlyIsMove DEF Moves, Abstract!Next, Abstract!Break, Abstract!Resume, Abstract!Pass
<1> QED BY <1>1, Effects, NoneIsStutter

(***************************************************************************)
(* Every step of Break, Resume and the rest of the tool is a step of the   *)
(* abstract breakpoints or leaves them alone: none is passed without a     *)
(* Resume that came after the hit.  (That it is passed then needs fairness *)
(* and is left to TLC, with the rest of ImplementsBreakPoint.)             *)
(***************************************************************************)
THEOREM BreakPointSteps == Spec => Abstract!Init /\ [][Abstract!Next]_Phases
<1>1. Init => Abstract!Init
  BY NoneAssumption DEF Init, Abstract!Init, Phases, PhaseOf, StoppedAt
<1> QED BY <1>1, OrderKept, StepsMap, PTL DEF Spec
=============================================================================
