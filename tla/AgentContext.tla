--------------------------- MODULE AgentContext ---------------------------
(* What the supervisor remembers of a durable agent across hosts: the     *)
(* browser and the review policy (supervisor/agent-context.ts), carried    *)
(* through the operation queue (execute.ts) to the worker.                 *)
EXTENDS Naturals
CONSTANTS Browsers, Default,   \* browser products; the configured one
          None, MaxOps, MaxEnds
Policies == {"normal", "review_only"}
VARIABLES stored,    \* the agent's context file: None, or browser and policy
          host,      \* the supervisor's memory
          worker,    \* None, or its browser, policy, connection and handoff
          private,   \* the browser left to the human, or None
          op,        \* the queued operation: where it stands and what it asks
          ops, ends  \* operations begun and process deaths, for the bounds
vars == <<stored, host, worker, private, op, ops, ends>>

Commands == {"start", "stop", "switchBrowser", "setPolicy", "policyStatus",
             "requestLoginHandoff", "resumeAfterLogin", "authStatus"}
Idle == [stage |-> "idle", command |-> "authStatus", browser |-> Default, policy |-> "normal"]
FreshHost == [bound |-> FALSE, browser |-> Default, policy |-> "normal",
              knownBrowser |-> FALSE, knownPolicy |-> FALSE,
              pendingBrowser |-> None, pendingPolicy |-> None,
              connected |-> FALSE, human |-> FALSE]
NewWorker == [browser |-> host.browser, policy |-> host.policy,
              connected |-> FALSE, handoff |-> FALSE]

Init ==
    /\ stored = None /\ host = FreshHost /\ worker = None /\ private = None
    /\ op = Idle /\ ops = 0 /\ ends = 0

Live == host.connected \/ host.human
At(stage) == op.stage = stage
Go(stage) == op' = [op EXCEPT !.stage = stage]

-----------------------------------------------------------------------------
(* Joining the lounge binds the host to its agent.  The context queue runs *)
(* one bind, take or write at a time, and each evaluates what it uses in   *)
(* one turn, so each is one step here.                                     *)

Written(h) == [browser |-> IF h.knownBrowser THEN h.browser ELSE None,
               policy |-> IF h.knownPolicy THEN h.policy ELSE None]

RestoredBrowser(h) ==
    IF Live THEN [h EXCEPT !.knownBrowser = TRUE]
    ELSE IF stored = None \/ stored.browser = None THEN h
    ELSE IF worker = None THEN [h EXCEPT !.knownBrowser = TRUE, !.browser = stored.browser]
    ELSE [h EXCEPT !.knownBrowser = TRUE, !.pendingBrowser = stored.browser]

RestoredPolicy(h) ==
    IF h.knownPolicy \/ stored = None \/ stored.policy = None THEN h
    ELSE IF worker = None THEN [h EXCEPT !.knownPolicy = TRUE, !.policy = stored.policy]
    ELSE [h EXCEPT !.knownPolicy = TRUE, !.pendingPolicy = stored.policy]

Bind ==
    /\ ~host.bound
    /\ host' = RestoredPolicy(RestoredBrowser([host EXCEPT !.bound = TRUE]))
    /\ stored' = IF ~Live THEN stored
                 ELSE [browser |-> host.browser,
                       policy |-> IF host'.pendingPolicy # None THEN host'.pendingPolicy
                                  ELSE Written(host').policy]
    /\ UNCHANGED <<worker, private, op, ops, ends>>

Persisted(h) == IF h.bound /\ (h.knownBrowser \/ h.knownPolicy) THEN Written(h) ELSE stored

-----------------------------------------------------------------------------
(* One operation at a time: first what a bind left pending. *)

Begin(command, browser, policy) ==
    /\ At("idle") /\ ops < MaxOps /\ ops' = ops + 1
    /\ op' = [stage |-> "take", command |-> command, browser |-> browser, policy |-> policy]
    /\ UNCHANGED <<stored, host, worker, private, ends>>

SwitchesAlways == host.pendingBrowser # None
Switches == host.pendingBrowser # None /\ ~Live

Take ==
    /\ At("take")
    /\ LET changes == Switches /\ host.pendingBrowser # host.browser
           retunes == host.pendingPolicy \notin {None, host.policy}
       IN  /\ host' = [host EXCEPT
                  !.pendingBrowser = None, !.pendingPolicy = None,
                  !.browser = IF Switches THEN host.pendingBrowser ELSE @,
                  !.policy = IF host.pendingPolicy # None THEN host.pendingPolicy ELSE @,
                  !.knownBrowser = @ \/ (Live /\ host.pendingBrowser # None)]
           /\ worker' = IF changes THEN None ELSE worker
           /\ Go(IF worker # None /\ ~changes /\ retunes THEN "retune"
                 ELSE IF host.pendingBrowser = None /\ host.pendingPolicy = None THEN "ensure"
                 ELSE "persist")
    /\ UNCHANGED <<stored, private, ops, ends>>

\* What a worker that knows of the private handoff still answers.
Permitted(command) == worker.handoff => command \in {"policyStatus", "authStatus", "resumeAfterLogin"}

Retune ==
    /\ At("retune") /\ worker # None
    /\ IF Permitted("setPolicy")
       THEN worker' = [worker EXCEPT !.policy = host.policy] /\ Go("persist")
       ELSE op' = Idle /\ UNCHANGED worker
    /\ UNCHANGED <<stored, host, private, ops, ends>>

Persist ==
    /\ At("persist") /\ stored' = Persisted(host) /\ Go("ensure")
    /\ UNCHANGED <<host, worker, private, ops, ends>>

EnsureWorker ==
    /\ At("ensure") /\ worker' = (IF worker = None THEN NewWorker ELSE worker) /\ Go("request")
    /\ UNCHANGED <<stored, host, private, ops, ends>>

-----------------------------------------------------------------------------
(* What the worker does with each request (browser-worker.ts), and what    *)
(* the supervisor captures of the answer (policy.ts).                      *)

\* A start over a durable handoff record learns of it and fails.
Started(w) == IF private = w.browser THEN [w EXCEPT !.handoff = TRUE]
              ELSE [w EXCEPT !.connected = TRUE]

Answered(w, h) ==
    /\ worker' = w /\ host' = h /\ Go("note")
Report(w) == [host EXCEPT !.browser = w.browser, !.connected = w.connected]
AuthReport(w) == [Report(w) EXCEPT !.human = w.handoff]
RequestFails(w) == worker' = w /\ op' = Idle /\ UNCHANGED host

Start ==
    /\ At("request") /\ op.command \in {"start", "switchBrowser"} /\ worker # None
    /\ Permitted(op.command)
    /\ LET aimed == IF op.command = "start" \/ op.browser = worker.browser THEN worker
                    ELSE [worker EXCEPT !.browser = op.browser, !.connected = FALSE]
           started == Started(aimed)
       IN  \/ started.connected /\ Answered(started, Report(started))
           \/ ~aimed.connected /\ RequestFails(IF started.handoff THEN started ELSE aimed)
    /\ UNCHANGED <<stored, private, ops, ends>>

Simple ==
    /\ At("request") /\ worker # None /\ Permitted(op.command)
    /\ \/ /\ op.command = "stop"
          /\ LET w == [worker EXCEPT !.connected = FALSE] IN Answered(w, Report(w))
       \/ /\ op.command = "setPolicy"
          /\ Answered([worker EXCEPT !.policy = op.policy], [host EXCEPT !.policy = op.policy])
       \/ /\ op.command = "policyStatus"
          /\ Answered(worker, [host EXCEPT !.policy = worker.policy])
       \/ /\ op.command = "authStatus"
          /\ LET w == [worker EXCEPT !.handoff = ~worker.connected /\ private = worker.browser]
             IN Answered(w, AuthReport(w))
    /\ UNCHANGED <<stored, private, ops, ends>>

RequestLoginHandoff ==
    /\ At("request") /\ op.command = "requestLoginHandoff" /\ worker # None
    /\ worker.connected /\ private = None
    /\ private' = worker.browser
    /\ LET w == [worker EXCEPT !.connected = FALSE, !.handoff = TRUE] IN Answered(w, AuthReport(w))
    /\ UNCHANGED <<stored, ops, ends>>

ResumeAfterLogin ==
    /\ At("request") /\ op.command = "resumeAfterLogin" /\ worker # None /\ worker.handoff
    /\ private' = None
    /\ LET w == [worker EXCEPT !.connected = TRUE, !.handoff = FALSE] IN Answered(w, AuthReport(w))
    /\ UNCHANGED <<stored, ops, ends>>

\* The worker refuses the command, or it cannot be carried out.
Refused ==
    /\ At("request") /\ worker # None
    /\ \/ ~Permitted(op.command)
       \/ op.command = "requestLoginHandoff" /\ (~worker.connected \/ private # None)
       \/ op.command = "resumeAfterLogin" /\ ~worker.handoff
    /\ RequestFails(worker) /\ UNCHANGED <<stored, private, ops, ends>>

\* noteAgentContextResult: which results make the browser or the policy known.
Note ==
    /\ At("note") /\ op' = Idle
    /\ LET names == \/ host.connected
                    \/ op.command \in Commands \ {"setPolicy", "policyStatus", "authStatus"}
       IN  host' = IF ~host.bound THEN host
                   ELSE [host EXCEPT !.knownBrowser = @ \/ names,
                                     !.knownPolicy = @ \/ op.command = "setPolicy"]
    /\ stored' = Persisted(host')
    /\ UNCHANGED <<worker, private, ops, ends>>

\* The worker dies, its browser with it; under an operation, execute replaces it.
WorkerDies ==
    /\ worker # None /\ ends < MaxEnds /\ ends' = ends + 1
    /\ IF At("request") \/ At("retune") THEN worker' = NewWorker /\ op' = Idle
       ELSE worker' = None /\ UNCHANGED op
    /\ UNCHANGED <<stored, host, private, ops>>

HostRestarts ==
    /\ ends < MaxEnds /\ ends' = ends + 1
    /\ host' = FreshHost /\ worker' = None /\ op' = Idle
    /\ UNCHANGED <<stored, private, ops>>

Next ==
    \/ Bind \/ \E c \in Commands, b \in Browsers, p \in Policies :
                   /\ c # "switchBrowser" => b = Default
                   /\ c # "setPolicy" => p = "normal"
                   /\ Begin(c, b, p)
    \/ Take \/ Retune \/ Persist \/ EnsureWorker
    \/ Start \/ Simple \/ RequestLoginHandoff \/ ResumeAfterLogin \/ Refused \/ Note
    \/ WorkerDies \/ HostRestarts
Spec == Init /\ [][Next]_vars

-----------------------------------------------------------------------------
\* The memory of the supervisor, of its worker and of the context file.
TypeOK ==
    /\ stored = None \/ stored \in [browser : Browsers \cup {None}, policy : Policies \cup {None}]
    /\ host \in [bound : BOOLEAN, browser : Browsers, policy : Policies,
                 knownBrowser : BOOLEAN, knownPolicy : BOOLEAN,
                 pendingBrowser : Browsers \cup {None}, pendingPolicy : Policies \cup {None},
                 connected : BOOLEAN, human : BOOLEAN]
    /\ worker = None \/ worker \in [browser : Browsers, policy : Policies,
                                    connected : BOOLEAN, handoff : BOOLEAN]
    /\ private \in Browsers \cup {None}
    /\ op.stage \in {"idle", "take", "retune", "persist", "ensure", "request", "note"}

\* Restoring a context never ends a worker that drives a browser: what bind
\* read stays pending, and an operation in between may have started one.
LiveBrowserStays == Take => ~(worker # None /\ worker.connected /\ worker' = None)

\* Between operations the context file names the browser the host has
\* selected, once one is known: no bind, failed operation, handoff or death
\* leaves the next host with another one.
StoredFollows ==
    At("idle") /\ host.bound /\ host.knownBrowser /\ host.pendingBrowser = None =>
        stored # None /\ stored.browser = host.browser

\* docs/agent-lounge.md:70: joining "restores only that agent's selected
\* backend and explicit review policy": an operation runs in the worker under
\* the policy the binding reported.
PolicyReachesWorker ==
    At("request") /\ host.bound /\ host.knownPolicy /\ host.pendingPolicy = None =>
        worker = None \/ worker.policy = host.policy
=============================================================================
