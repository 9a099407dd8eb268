------------------------------ MODULE KillSwitch ------------------------------
(***************************************************************************)
(* The kill switch (atlas/agents/l4_risk/kill_switch.py) and what acts on  *)
(* it: the alerts of the RiskController, the API, and the agents that      *)
(* write its Redis hash past it.  The switch is kept three times: in the   *)
(* memory of the agent (/status), in the row risk_state (the gateway), in  *)
(* the Redis hash (/risk).  A call sets them one after the other, and an   *)
(* await lies between each two.                                            *)
(***************************************************************************)
EXTENDS Naturals

CONSTANTS
  Api,        \* requests to the API that may be under way at one time
  MaxRetries, \* BaseAgent.MAX_RETRIES
  MaxFaults   \* bound: statements that raise, crashes, alerts that get lost

Listener == "listener"
Starter == "starter"

ASSUME ApiAssumption ==
  /\ Listener \notin Api /\ Starter \notin Api
  /\ MaxRetries \in Nat /\ MaxFaults \in Nat

(* Who may be in the middle of a call: requests, run(), start(). *)
Caller == Api \cup {Listener, Starter}

VARIABLES
  agent,     \* "down", "starting" or "up": start() has returned
  active,    \* self._is_active
  halted,    \* risk_state.halted
  mirror,    \* kill_switch:state.active in Redis
  call,      \* what each caller is doing
  loss,      \* a daily or weekly limit is breached
  alert,     \* a limit_breach waits in the subscription
  subscribed,  \* run() has subscribed to the alerts
  retries,   \* self._retry_count: the errors that ended run()
  faults,
  torn,      \* history: the three may differ with no call under way
  confirmed  \* history: an activation was answered, and no call undid it since

stores == <<active, halted, mirror>>
inbox == <<alert, subscribed, retries>>
history == <<torn, confirmed>>
vars == <<agent, stores, call, loss, inbox, faults, history>>

(* A call has come to a step.  History: nobody else wrote since it began,  *)
(* "alone", or at least no deactivation, "sure".                           *)
NoCall == [step |-> "none", on |-> FALSE, alone |-> FALSE, sure |-> FALSE]
Step == {"none", "row", "mirror", "rest"}
Busy == {c \in Caller : call[c].step # "none"}

Init ==
  /\ agent = "down"
  /\ active = FALSE /\ halted \in BOOLEAN /\ mirror \in BOOLEAN
  /\ call = [c \in Caller |-> NoCall]
  /\ loss = FALSE
  /\ alert = FALSE /\ subscribed = FALSE /\ retries = 0
  /\ faults = 0
  /\ torn = TRUE /\ confirmed = FALSE

Fault == faults < MaxFaults /\ faults' = faults + 1

(* c begins, and no call under way is alone any more. *)
Enters(c, step, on) ==
  call' = [d \in Caller |->
             IF d = c THEN [step |-> step, on |-> on, alone |-> Busy = {},
                            sure |-> \A b \in Busy \ {Starter} : call[b].on]
             ELSE [call[d] EXCEPT !.alone = FALSE, !.sure = @ /\ (on \/ c = Starter)]]
Goes(c, step) == call' = [call EXCEPT ![c].step = step]
Leaves(c) == call' = [call EXCEPT ![c] = NoCall]

-----------------------------------------------------------------------------
(***************************************************************************)
(* activate_kill_switch and deactivate_kill_switch                         *)
(***************************************************************************)
Begin(c, on) ==
  /\ call[c].step = "none"
  /\ active' = on
  /\ Enters(c, "row", on)
  /\ confirmed' = (confirmed /\ on)
  /\ UNCHANGED <<agent, halted, mirror, loss, faults, torn>>

WriteRow(c) ==
  /\ c # Starter /\ call[c].step = "row"
  /\ halted' = call[c].on
  /\ Goes(c, "mirror")
  /\ UNCHANGED <<agent, active, mirror, loss, inbox, faults, history>>

(* A fault: a deactivation leaves the hash. *)
WriteMirrorOnlyOn(c) ==
  /\ c # Starter /\ call[c].step = "mirror"
  /\ mirror' = (mirror \/ call[c].on)
  /\ Goes(c, "rest")
  /\ UNCHANGED <<agent, active, halted, loss, inbox, faults, history>>

WriteMirror(c) ==
  /\ c # Starter /\ call[c].step = "mirror"
  /\ mirror' = call[c].on
  /\ Goes(c, "rest")
  /\ UNCHANGED <<agent, active, halted, loss, inbox, faults, history>>

(* agent_registry, the messages, the log, Slack; the call is answered. *)
Answer(c) ==
  /\ call[c].step = "rest"
  /\ Leaves(c)
  /\ torn' = ~call[c].alone
  /\ confirmed' = (call[c].on /\ (confirmed \/ call[c].sure))
  /\ UNCHANGED <<agent, stores, loss, inbox, faults>>

(* What raises leaves the stores as far as they are written. *)
CallRaises(c) ==
  /\ c # Starter /\ call[c].step # "none"
  /\ Fault
  /\ Leaves(c)
  /\ torn' = TRUE
  /\ UNCHANGED <<agent, stores, loss, inbox, confirmed>>

-----------------------------------------------------------------------------
(***************************************************************************)
(* start() and run().  The API serves as soon as the object exists.        *)
(***************************************************************************)
(* The row is read; a start that finds no halt leaves the memory alone. *)
StartReads ==
  /\ agent = "down"
  /\ agent' = "starting"
  /\ Enters(Starter, "mirror", halted)
  /\ active' = (active \/ halted)
  /\ UNCHANGED <<halted, mirror, loss, inbox, faults, history>>

(* A fault: the hash is trusted, and written into the row. *)
StartTrustsMirror ==
  /\ call[Starter].step = "mirror"
  /\ halted' = mirror
  /\ agent' = "up"
  /\ Leaves(Starter)
  /\ torn' = ~(call[Starter].alone /\ active = call[Starter].on)
  /\ UNCHANGED <<active, mirror, loss, inbox, faults, confirmed>>

StartWritesMirror ==
  /\ call[Starter].step = "mirror"
  /\ mirror' = call[Starter].on
  /\ agent' = "up"
  /\ Leaves(Starter)
  /\ torn' = ~(call[Starter].alone /\ active = call[Starter].on)
  /\ UNCHANGED <<active, halted, loss, inbox, faults, confirmed>>

StartRaises ==
  /\ call[Starter].step = "mirror"
  /\ Fault
  /\ agent' = "down"
  /\ Leaves(Starter)
  /\ torn' = TRUE
  /\ UNCHANGED <<stores, loss, inbox, confirmed>>

(* A fault: the requests go on after the death. *)
CrashKeepsCalls ==
  /\ agent # "down"
  /\ Fault
  /\ agent' = "down"
  /\ active' = FALSE
  /\ alert' = FALSE /\ subscribed' = FALSE /\ retries' = 0
  /\ torn' = TRUE
  /\ UNCHANGED <<halted, mirror, call, loss, confirmed>>

(* The process dies in the middle of whatever it does. *)
Crash ==
  /\ agent # "down"
  /\ Fault
  /\ agent' = "down"
  /\ active' = FALSE
  /\ call' = [c \in Caller |-> NoCall]
  /\ alert' = FALSE /\ subscribed' = FALSE /\ retries' = 0
  /\ torn' = TRUE
  /\ UNCHANGED <<halted, mirror, loss, confirmed>>

Request(c, on) ==
  /\ c \in Api
  /\ agent # "down"
  /\ Begin(c, on)
  /\ UNCHANGED inbox

(* _run_with_retry calls run() as long as it has retries. *)
Listening == agent = "up" /\ retries <= MaxRetries

Subscribe ==
  /\ Listening /\ ~subscribed
  /\ subscribed' = TRUE
  /\ UNCHANGED <<agent, stores, call, loss, alert, retries, faults, history>>

(* A fault: an alert is ignored when the switch is on in memory. *)
ListenOnce ==
  /\ Listening /\ subscribed
  /\ alert
  /\ alert' = FALSE /\ UNCHANGED <<subscribed, retries>>
  /\ IF active THEN UNCHANGED <<agent, stores, call, loss, faults, history>>
     ELSE Begin(Listener, TRUE)

Listen ==
  /\ Listening /\ subscribed
  /\ alert
  /\ Begin(Listener, TRUE)
  /\ alert' = FALSE /\ UNCHANGED <<subscribed, retries>>

(***************************************************************************)
(* subscribe or get_message raises between two alerts.  That ends run(),   *)
(* whose finally drops the subscription; once the retries are used up      *)
(* nobody listens any more, though the server goes on.  (The next run()    *)
(* starts a second server on the port of the first; if that ends the       *)
(* process, it is a Crash.)                                                *)
(***************************************************************************)
ListenRaises ==
  /\ Listening /\ call[Listener].step = "none"
  /\ Fault
  /\ retries' = retries + 1
  /\ subscribed' = FALSE /\ alert' = FALSE
  /\ UNCHANGED <<agent, stores, call, loss, history>>

-----------------------------------------------------------------------------
(***************************************************************************)
(* RiskController.run: it publishes as long as the limit is breached.      *)
(* Redis keeps nothing for a subscriber that is not connected.             *)
(***************************************************************************)
LossChanges ==
  /\ loss' = ~loss
  /\ UNCHANGED <<agent, stores, call, inbox, faults, history>>

Publish ==
  /\ loss
  /\ subscribed /\ ~alert
  /\ alert' = TRUE
  /\ UNCHANGED <<agent, stores, call, loss, subscribed, retries, faults, history>>

AlertLost ==
  /\ alert
  /\ Fault
  /\ alert' = FALSE
  /\ UNCHANGED <<agent, stores, call, loss, subscribed, retries, history>>

(***************************************************************************)
(* CapitalPreservationEngine, SystemHealthEngine and the control plane set *)
(* the hash, and nothing else.                                             *)
(***************************************************************************)
SetMirror ==
  /\ mirror' = TRUE
  /\ call' = [c \in Caller |-> [call[c] EXCEPT !.alone = FALSE]]
  /\ torn' = TRUE
  /\ UNCHANGED <<agent, active, halted, loss, inbox, faults, confirmed>>

-----------------------------------------------------------------------------
CallGoesOn(c) == WriteRow(c) \/ WriteMirror(c) \/ Answer(c)

Next ==
  \/ \E c \in Caller :
       CallGoesOn(c) \/ CallRaises(c) \/ \E on \in BOOLEAN : Request(c, on)
  \/ StartReads \/ StartWritesMirror \/ StartRaises \/ Crash
  \/ Subscribe \/ Listen \/ ListenRaises
  \/ LossChanges \/ Publish \/ AlertLost \/ SetMirror

(***************************************************************************)
(* The coroutines of a living agent go on, run() is called again after its *)
(* backoff, and the RiskController, whose loop catches every exception,    *)
(* comes to its checks.  Nothing says that the agent is ever started: no   *)
(* entry point creates or watches it.                                      *)
(***************************************************************************)
Fairness ==
  /\ \A c \in Caller : WF_vars(CallGoesOn(c))
  /\ WF_vars(StartWritesMirror)
  /\ WF_vars(Subscribe) /\ WF_vars(Listen)
  /\ WF_vars(Publish)

Spec == Init /\ [][Next]_vars /\ Fairness

-----------------------------------------------------------------------------
(* Type invariant of the three copies and of the calls. *)
SwitchTypeOK ==
  /\ agent \in {"down", "starting", "up"}
  /\ active \in BOOLEAN /\ halted \in BOOLEAN /\ mirror \in BOOLEAN
  /\ call \in [Caller -> [step : Step, on : BOOLEAN, alone : BOOLEAN, sure : BOOLEAN]]
  /\ loss \in BOOLEAN /\ alert \in BOOLEAN /\ subscribed \in BOOLEAN
  /\ retries \in 0 .. MaxRetries + 1
  /\ faults \in 0 .. MaxFaults
  /\ torn \in BOOLEAN /\ confirmed \in BOOLEAN
  /\ call[Starter].step # "none" <=> agent = "starting"

(***************************************************************************)
(* "Redis + DB dual-state persistence": when no call is under way, memory, *)
(* row and hash say the same, unless the last one to write them raised,    *)
(* met another call or died, or wrote the hash past the switch.            *)
(***************************************************************************)
CopiesAgree ==
  (Busy = {} /\ ~torn /\ agent = "up") => active = halted /\ halted = mirror

(***************************************************************************)
(* An activation that was answered halts the gateway until somebody asks   *)
(* to resume, whatever raises, crashes, starts again or writes the hash.   *)
(***************************************************************************)
ConfirmedHaltHolds == confirmed => halted

(***************************************************************************)
(* "LIMIT BREACH -> PubSub -> KillSwitch.run()": a breach that lasts halts *)
(* the gateway while the agent lives and has retries left, though alerts   *)
(* get lost, activations fail, requests interfere and run() is ended by    *)
(* errors.  Once the agent is dead or out of retries it is not so.         *)
(***************************************************************************)
BreachHalts == (loss /\ Listening) ~> (halted \/ ~(loss /\ Listening))

=============================================================================
