---------------------------- MODULE DebugConsole ----------------------------
(***************************************************************************)
(* A code generator tool with its debug web server: the main thread of     *)
(* codegen_tool.cc (optimize_tool.cc is the case EarlyReturn = {}), the    *)
(* server thread of Util/webserver.cc, and the two breakpoints             *)
(* (Util/breakpoint.h) through which they meet, each a mutex, a condition  *)
(* variable and the flag ready_.                                           *)
(***************************************************************************)
EXTENDS Naturals, Sequences

CONSTANTS
  Mode,          (* values of --mode *)
  EarlyReturn,   (* the modes that return from the middle of main *)
  None,          (* no breakpoint, no owner *)
  MaxSpurious    (* bound: wakeups without a notify *)

ASSUME ModeAssumption == EarlyReturn \subseteq Mode /\ MaxSpurious \in Nat

BP == {"after_load", "before_exit"}

ASSUME NoneAssumption == None \notin BP \cup {"main", "server"}

(* GetAll starts at head, the breakpoint constructed last. *)
AllBreakPoints == <<"before_exit", "after_load">>

VARIABLES
  mode, launch, stop_after_load,   (* the switches *)
  handler,   (* MyAbortHandler: what a failed assertion calls *)
  main,      (* where the main thread is *)
  at,        (* the breakpoint it is in, or None *)
  ready,     (* ready[b]: ready_ *)
  owner,     (* owner[b]: who holds mutex_ *)
  spurious,  (* spurious wakeups so far *)
  server,    (* where the server thread is *)
  req,       (* the breakpoint being resumed, or None *)
  rows,      (* table rows of the page still to render *)
  shown,     (* breakpoints the page shows a Resume link for *)
  passed     (* history: breakpoints the main thread got past *)

switches == <<mode, launch, stop_after_load>>
mainVars == <<main, at, spurious, passed>>
serverVars == <<server, req, rows, shown>>
vars == <<switches, handler, mainVars, serverVars, ready, owner>>

Init ==
  /\ mode \in Mode /\ launch \in BOOLEAN /\ stop_after_load \in BOOLEAN
  /\ handler = "abort"
  /\ main = "parsed" /\ at = None /\ spurious = 0 /\ passed = {}
  /\ server = "off" /\ req = None /\ rows = <<>> /\ shown = {}
  /\ ready = [b \in BP |-> TRUE]
  /\ owner = [b \in BP |-> None]

-----------------------------------------------------------------------------
(* The main thread *)

Enter(b) == main' = "lock" /\ at' = b
Goto(to) == main' = to /\ at' = None

(* The process is gone, its server thread too. *)
End(how) ==
  /\ Goto(how)
  /\ server' = "off" /\ req' = None
  /\ owner' = [b \in BP |-> None]

(* The server thread runs from here on, before the handler is set. *)
LaunchServer ==
  /\ main = "parsed"
  /\ Goto(IF launch THEN "launched" ELSE "loaded")
  /\ server' = IF launch THEN "start" ELSE "off"
  /\ UNCHANGED <<switches, handler, spurious, passed, req, rows, shown, ready, owner>>

SetAbortHandler ==
  /\ main = "launched"
  /\ handler' = "SleepForever"
  /\ Goto("loaded")
  /\ UNCHANGED <<switches, spurious, passed, serverVars, ready, owner>>

AfterLoad ==
  /\ main = "loaded"
  /\ IF launch /\ stop_after_load THEN Enter("after_load") ELSE Goto("work")
  /\ UNCHANGED <<switches, handler, spurious, passed, serverVars, ready, owner>>

(* The passes. *)
Work ==
  /\ main = "work" /\ mode \notin EarlyReturn
  /\ Goto("emitted")
  /\ UNCHANGED <<switches, handler, spurious, passed, serverVars, ready, owner>>

(* A failed assertion calls the handler: the thread sleeps, or all is over. *)
WorkFails ==
  /\ main = "work"
  /\ IF handler = "abort" THEN End("aborted")
     ELSE Goto("sleep_forever") /\ UNCHANGED <<server, req, owner>>
  /\ UNCHANGED <<switches, handler, spurious, passed, rows, shown, ready>>

(* Leaving main destroys the std::thread it has not joined: terminate.     *)
ReturnEarly ==
  /\ main = "work" /\ mode \in EarlyReturn
  /\ End(IF launch THEN "terminated" ELSE "returned")
  /\ UNCHANGED <<switches, handler, spurious, passed, rows, shown, ready>>

(* The server's loop never ends, so "join" is final. *)
AtEnd ==
  /\ main = "emitted"
  /\ IF launch THEN Enter("before_exit") ELSE Goto("returned")
  /\ UNCHANGED <<switches, handler, spurious, passed, serverVars, ready, owner>>

(* BreakPoint::Break *)
Lock ==
  /\ main = "lock" /\ owner[at] = None
  /\ owner' = [owner EXCEPT ![at] = "main"]
  /\ main' = "clear"
  /\ UNCHANGED <<switches, handler, at, spurious, passed, serverVars, ready>>

Clear ==
  /\ main = "clear"
  /\ ready' = [ready EXCEPT ![at] = FALSE]
  /\ main' = "check"
  /\ UNCHANGED <<switches, handler, at, spurious, passed, serverVars, owner>>

Wait_KeepsMutex ==   \* mutant: sleeps with the lock held
  /\ main = "check" /\ ~ready[at]
  /\ main' = "asleep"
  /\ UNCHANGED <<switches, handler, at, spurious, passed, serverVars, ready, owner>>

(* cv_.wait releases the mutex and sleeps in one step. *)
Wait ==
  /\ main = "check" /\ ~ready[at]
  /\ owner' = [owner EXCEPT ![at] = None]
  /\ main' = "asleep"
  /\ UNCHANGED <<switches, handler, at, spurious, passed, serverVars, ready>>

WakeSpuriously ==
  /\ main = "asleep" /\ spurious < MaxSpurious
  /\ main' = "relock"
  /\ spurious' = spurious + 1
  /\ UNCHANGED <<switches, handler, at, passed, serverVars, ready, owner>>

Relock_Leaves ==   \* mutant: if (!ready_) instead of while (!ready_)
  /\ main = "relock" /\ owner[at] = None
  /\ passed' = passed \cup {at}
  /\ Goto(IF at = "after_load" THEN "work" ELSE "join")
  /\ UNCHANGED <<switches, handler, spurious, serverVars, ready, owner>>

Relock ==
  /\ main = "relock" /\ owner[at] = None
  /\ owner' = [owner EXCEPT ![at] = "main"]
  /\ main' = "check"
  /\ UNCHANGED <<switches, handler, at, spurious, passed, serverVars, ready>>

Leave ==
  /\ main = "check" /\ ready[at]
  /\ owner' = [owner EXCEPT ![at] = None]
  /\ passed' = passed \cup {at}
  /\ Goto(IF at = "after_load" THEN "work" ELSE "join")
  /\ UNCHANGED <<switches, handler, spurious, serverVars, ready>>

-----------------------------------------------------------------------------
(* The server thread: one request at a time.  "idle" is accept, read and   *)
(* ParseHeaders.                                                           *)

Listen ==
  /\ server = "start"
  /\ server' = "idle"
  /\ UNCHANGED <<switches, handler, mainVars, req, rows, shown, ready, owner>>

AcceptPage ==
  /\ server = "idle"
  /\ server' = "render"
  /\ rows' = AllBreakPoints /\ shown' = {}
  /\ UNCHANGED <<switches, handler, mainVars, req, ready, owner>>

(* One row of the table, read with no lock ("benign race"). *)
RenderRow ==
  /\ server = "render" /\ rows # <<>>
  /\ shown' = IF ready[Head(rows)] THEN shown ELSE shown \cup {Head(rows)}
  /\ rows' = Tail(rows)
  /\ UNCHANGED <<switches, handler, mainVars, server, req, ready, owner>>

Rendered ==
  /\ server = "render" /\ rows = <<>>
  /\ server' = "respond"
  /\ UNCHANGED <<switches, handler, mainVars, req, rows, shown, ready, owner>>

(* /resume/<name>: an unknown name is answered at once, as /code is. *)
AcceptResume(b) ==
  /\ server = "idle"
  /\ server' = "lock" /\ req' = b
  /\ UNCHANGED <<switches, handler, mainVars, rows, shown, ready, owner>>

AcceptOther ==
  /\ server = "idle"
  /\ server' = "respond"
  /\ UNCHANGED <<switches, handler, mainVars, req, rows, shown, ready, owner>>

(* BreakPoint::Resume *)
ResumeLock ==
  /\ server = "lock" /\ owner[req] = None
  /\ owner' = [owner EXCEPT ![req] = "server"]
  /\ server' = "set"
  /\ UNCHANGED <<switches, handler, mainVars, req, rows, shown, ready>>

ResumeSet ==
  /\ server = "set"
  /\ ready' = [ready EXCEPT ![req] = TRUE]
  /\ owner' = [owner EXCEPT ![req] = None]
  /\ shown' = shown \ {req}
  /\ server' = "notify"
  /\ UNCHANGED <<switches, handler, mainVars, req, rows>>

ResumeNotify_Nobody ==   \* mutant: notify_all forgotten
  /\ server = "notify"
  /\ server' = "respond" /\ req' = None
  /\ UNCHANGED <<switches, handler, mainVars, rows, shown, ready, owner>>

ResumeNotify ==
  /\ server = "notify"
  /\ main' = IF main = "asleep" /\ at = req THEN "relock" ELSE main
  /\ server' = "respond" /\ req' = None
  /\ UNCHANGED <<switches, handler, at, spurious, passed, rows, shown, ready, owner>>

(* The handler's answer, then DefaultHandler's as well; back to accept. *)
Respond ==
  /\ server = "respond"
  /\ server' = "idle"
  /\ UNCHANGED <<switches, handler, mainVars, req, rows, shown, ready, owner>>

(* socket or bind; accept, read or the header; write: each is asserted. *)
ServerFails ==
  /\ server \in {"start", "idle", "respond"}
  /\ IF handler = "abort" THEN End("aborted")
     ELSE server' = "sleep_forever" /\ UNCHANGED <<main, at, req, owner>>
  /\ UNCHANGED <<switches, handler, spurious, passed, rows, shown, ready>>

-----------------------------------------------------------------------------
MainStep ==
  \/ LaunchServer \/ SetAbortHandler \/ AfterLoad \/ Work \/ WorkFails
  \/ ReturnEarly \/ AtEnd \/ Lock \/ Clear \/ Wait \/ Relock \/ Leave

ServerStep ==
  Listen \/ RenderRow \/ Rendered \/ ResumeLock \/ ResumeSet \/ ResumeNotify \/ Respond

Request == AcceptPage \/ AcceptOther \/ \E b \in BP : AcceptResume(b)

Next == MainStep \/ ServerStep \/ Request \/ ServerFails \/ WakeSpuriously

(* Both threads run; a thread that keeps trying to lock gets the mutex.    *)
(* Nobody has to send a request, and no call of the server has to fail.    *)
Fairness ==
  /\ WF_vars(MainStep) /\ WF_vars(ServerStep)
  /\ SF_vars(Lock) /\ SF_vars(Relock) /\ SF_vars(ResumeLock)

Spec == Init /\ [][Next]_vars /\ Fairness

-----------------------------------------------------------------------------
InBreak == {"lock", "clear", "check", "asleep", "relock"}

(* Types; a thread holds the mutex of exactly the breakpoint it works on. *)
TypeOK ==
  /\ mode \in Mode /\ launch \in BOOLEAN /\ stop_after_load \in BOOLEAN
  /\ handler \in {"abort", "SleepForever"}
  /\ at \in BP \cup {None} /\ (at # None <=> main \in InBreak)
  /\ ready \in [BP -> BOOLEAN] /\ passed \subseteq BP /\ shown \subseteq BP
  /\ spurious \in 0..MaxSpurious
  /\ req \in BP \cup {None} /\ (req # None <=> server \in {"lock", "set", "notify"})
  /\ owner \in [BP -> {"main", "server", None}]
  /\ \A b \in BP :
       /\ owner[b] = "main" <=> at = b /\ main \in {"clear", "check"}
       /\ owner[b] = "server" <=> req = b /\ server = "set"

StoppedAt(b) == at = b /\ main \in {"check", "asleep", "relock"}

(* Resume links are exact although read without the lock: the main thread  *)
(* is stopped at every breakpoint the page shows one for, and stays there  *)
(* until it is resumed.                                                    *)
LinkMeansStopped == \A b \in shown : StoppedAt(b) /\ ~ready[b]

(* Once a request has been read its handler returns: the server never      *)
(* blocks for good on the mutex of a breakpoint the main thread sleeps in. *)
(* (Reading the next request and writing the answer may fail.)             *)
HandlerReturns ==
  server \in {"render", "lock", "set", "notify"} ~> server \in {"respond", "off"}

(* Break and Resume implement the breakpoint specification: no breakpoint  *)
(* is passed without a Resume after the hit, and no wakeup is lost.        *)
PhaseOf(b) ==
  IF b \in passed THEN "passed"
  ELSE IF StoppedAt(b) THEN IF ready[b] THEN "released" ELSE "stopped"
  ELSE "idle"
Phases == [b \in BP |-> PhaseOf(b)]
Abstract == INSTANCE BreakPointSpec WITH phase <- Phases
ImplementsBreakPoint == Abstract!Spec
=============================================================================
