---------------------------- MODULE Registration ----------------------------
(***************************************************************************)
(* How a host gets its agent token.  The installer writes the install      *)
(* token to the token file and runs `cplane-agent register`, which sends   *)
(* what the file holds and overwrites the file with the answer             *)
(* (src/scripts/install-agent.sh; runRegister, readToken and writeSecret   *)
(* in src/cmd/cplane-agent/main.go).  The server replaces the hash of the  *)
(* current token by that of a new one (RegisterHostAgent).                 *)
(*                                                                         *)
(* register is also run by hand, the installer again, with --skip-register *)
(* or not, the uninstaller in between, several of them at a time.  An      *)
(* answer can be lost, and a request nobody waits for any more can still   *)
(* be served.                                                              *)
(***************************************************************************)
EXTENDS Integers

CONSTANTS
  Procs,     \* processes that may be under way at the same time
  MaxRuns,   \* bound on the runs of the installer
  MaxHand,   \* bound on the runs of register by hand
  MaxFaults  \* bound on refused, lost and abandoned requests and on deaths

ASSUME RegistrationAssumption ==
  MaxRuns \in Nat /\ MaxHand \in Nat /\ MaxFaults \in Nat

VARIABLES
  current,  \* the token whose hash the server keeps
  accepted, \* accepted[t]: how often the server accepted t (history)
  file,     \* what the token file holds
  proc,     \* proc[p]: a run of the installer or of register by hand
  late,     \* the tokens in requests nobody waits for any more
  service,  \* whether the agent's service was started
  runs      \* runs and faults so far, whether an installer skipped register,
            \* and whether the uninstaller ran

vars == <<current, accepted, file, proc, late, service, runs>>

\* Tokens are numbered in the order the server makes them, 0 is the install
\* token; a file that is missing, empty or no token at all has NoToken.
NoToken == -1
Install == 0

Kinds == {"installer", "skip", "hand"}
Idle == [step |-> "idle"]

Proc == {Idle} \cup [step : {"plant", "read", "ok"}, kind : Kinds] \cup
        [step : {"wait", "open", "fill"}, kind : Kinds, token : Nat]

TypeOK ==
  /\ current \in Nat
  /\ accepted \in [0 .. MaxRuns + MaxHand -> Nat]
  /\ file \in Nat \cup {NoToken}
  /\ proc \in [Procs -> Proc]
  /\ late \subseteq Nat
  /\ service \in BOOLEAN
  /\ runs \in [installer : Nat, hand : Nat, faults : Nat, skipped : BOOLEAN, removed : BOOLEAN]

Init ==
  /\ current = Install
  /\ accepted = [t \in 0 .. MaxRuns + MaxHand |-> 0]
  /\ file = NoToken
  /\ proc = [p \in Procs |-> Idle]
  /\ late = {}
  /\ service = FALSE
  /\ runs = [installer |-> 0, hand |-> 0, faults |-> 0, skipped |-> FALSE, removed |-> FALSE]

At(p, step) == proc[p].step = step
Become(p, state) == proc' = [proc EXCEPT ![p] = state]
GoOn(p, step) == Become(p, [step |-> step, kind |-> proc[p].kind])
Holding(p, step, t) == Become(p, [step |-> step, kind |-> proc[p].kind, token |-> t])

Fault ==
  /\ runs.faults < MaxFaults
  /\ runs' = [runs EXCEPT !.faults = @ + 1]

-----------------------------------------------------------------------------
(* The server.                                                             *)

\* Mutant: the UPDATE finds the host by its id alone.
GrantedById(t) == TRUE

\* WHERE id = ? AND agent_token_hash = ?
Granted(t) == t = current

Accept(t) ==
  /\ Granted(t)
  /\ current' = current + 1
  /\ accepted' = [accepted EXCEPT ![t] = @ + 1]

\* The answer holds the new token; anything but the current one is not found
\* and ends register.
Serve(p) ==
  /\ At(p, "wait")
  /\ \/ Accept(proc[p].token) /\ Holding(p, "open", current + 1)
     \/ ~Granted(proc[p].token) /\ Become(p, Idle) /\ UNCHANGED <<current, accepted>>
  /\ UNCHANGED <<file, late, service, runs>>

ServeLate(t) ==
  /\ t \in late /\ late' = late \ {t}
  /\ Accept(t) \/ (~Granted(t) /\ UNCHANGED <<current, accepted>>)
  /\ UNCHANGED <<file, proc, service, runs>>

-----------------------------------------------------------------------------
(* The installer and register.                                             *)

\* The shell truncates the file, then printf writes the install token.
Installer(p) ==
  /\ proc[p] = Idle /\ runs.installer < MaxRuns
  /\ \E kind \in {"installer", "skip"} :
       /\ Become(p, [step |-> "plant", kind |-> kind])
       /\ runs' = [runs EXCEPT !.installer = @ + 1, !.skipped = @ \/ kind = "skip"]
  /\ file' = NoToken
  /\ UNCHANGED <<current, accepted, late, service>>

\* --skip-register leaves register out.
Plant(p) ==
  /\ At(p, "plant")
  /\ file' = Install
  /\ GoOn(p, IF proc[p].kind = "skip" THEN "ok" ELSE "read")
  /\ UNCHANGED <<current, accepted, late, service, runs>>

ByHand(p) ==
  /\ proc[p] = Idle /\ runs.hand < MaxHand
  /\ Become(p, [step |-> "read", kind |-> "hand"])
  /\ runs' = [runs EXCEPT !.hand = @ + 1]
  /\ UNCHANGED <<current, accepted, file, late, service>>

\* A file without a token ends register here, or at the server's check of
\* its input.
Send(p) ==
  /\ At(p, "read")
  /\ IF file = NoToken THEN Become(p, Idle) ELSE Holding(p, "wait", file)
  /\ UNCHANGED <<current, accepted, file, late, service, runs>>

\* Mutant: the answer is printed but not written.
NeverOpen(p) ==
  /\ At(p, "open")
  /\ GoOn(p, "ok")
  /\ UNCHANGED <<current, accepted, file, late, service, runs>>

\* writeSecret truncates the file and writes the token.
Open(p) ==
  /\ At(p, "open")
  /\ file' = NoToken
  /\ Holding(p, "fill", proc[p].token)
  /\ UNCHANGED <<current, accepted, late, service, runs>>

\* An install token that was written since is longer: its end remains.
Fill(p) ==
  /\ At(p, "fill")
  /\ file' = IF file = Install THEN NoToken ELSE proc[p].token
  /\ GoOn(p, "ok")
  /\ UNCHANGED <<current, accepted, late, service, runs>>

\* The installer runs with set -e: it starts the service when register was
\* successful, or was not asked for.
Return(p) ==
  /\ At(p, "ok")
  /\ Become(p, Idle)
  /\ service' = (service \/ proc[p].kind # "hand")
  /\ UNCHANGED <<current, accepted, file, late, runs>>

\* The uninstaller stops the service and removes the configuration; nothing
\* else runs on the host meanwhile.
Uninstall ==
  /\ service /\ \A p \in Procs : proc[p] = Idle
  /\ service' = FALSE
  /\ file' = NoToken
  /\ runs' = [runs EXCEPT !.removed = TRUE]
  /\ UNCHANGED <<current, accepted, proc, late>>

-----------------------------------------------------------------------------
(* Faults.                                                                 *)

\* The request is not served.
Refused(p) ==
  /\ At(p, "wait")
  /\ Fault /\ Become(p, Idle)
  /\ UNCHANGED <<current, accepted, file, late, service>>

\* The client's timeout, or its death: the request may be served yet.
Abandon(p) ==
  /\ At(p, "wait")
  /\ Fault /\ Become(p, Idle)
  /\ late' = late \cup {proc[p].token}
  /\ UNCHANGED <<current, accepted, file, service>>

\* The token was accepted, and the answer does not arrive.
LoseAnswer(p) ==
  /\ At(p, "wait")
  /\ Fault /\ Become(p, Idle)
  /\ Accept(proc[p].token)
  /\ UNCHANGED <<file, late, service>>

\* A death, or an error of a file operation, at any other step.
Die(p) ==
  /\ proc[p].step \in {"plant", "read", "open", "fill", "ok"}
  /\ Fault /\ Become(p, Idle)
  /\ UNCHANGED <<current, accepted, file, late, service>>

Run(p) == Plant(p) \/ Send(p) \/ Serve(p) \/ Open(p) \/ Fill(p) \/ Return(p)

Trouble(p) == Refused(p) \/ Abandon(p) \/ LoseAnswer(p) \/ Die(p)

Next ==
  \/ \E p \in Procs : Installer(p) \/ ByHand(p) \/ Run(p) \/ Trouble(p)
  \/ \E t \in late : ServeLate(t)
  \/ Uninstall

\* A process that was started goes on, and the server answers it.
Fairness == \A p \in Procs : WF_vars(Run(p))

Spec == Init /\ [][Next]_vars /\ Fairness

-----------------------------------------------------------------------------
(* Properties.                                                             *)

\* Whoever is handed a token is the only one to have it, and it stays current
\* until it is in the file: no run in between, by hand or of the installer,
\* no late request and no repeated one can take it over.
AnsweredIsCurrent ==
  \A p \in Procs : proc[p].step \in {"open", "fill"} =>
    /\ proc[p].token = current /\ file # current
    /\ \A q \in Procs \ {p} : proc[q].step \notin {"open", "fill"}

\* The server accepts every token at most once.
TokenOnce == \A t \in DOMAIN accepted : accepted[t] <= 1

\* A register that fails ends the installer before the start of the service,
\* however often and with whatever else it runs; only --skip-register starts
\* it with the install token unexchanged.
StartedAfterExchange == service => current # Install \/ runs.skipped

\* No file, answer or request that is waited for holds the current token; the
\* install token is known to the admin.
Stranded ==
  /\ current # Install /\ file # current
  /\ \A p \in Procs :
       proc[p].step \in {"wait", "open", "fill"} => proc[p].token # current

\* A host is cut off from registering only by a fault, by a second run of the
\* installer or by the uninstaller: runs by hand, whatever they overlap with,
\* are harmless.
StrandedWithReason ==
  Stranded => runs.faults > 0 \/ runs.installer > 1 \/ runs.removed

\* The first run of the installer ends with a token that is current in the
\* file, also when register is run by hand meanwhile, unless there is a fault,
\* a second run of the installer or the uninstaller.  It is not the install
\* token, unless the installer was told to skip register.
InstallationSucceeds ==
  runs.installer = 1 ~>
    \/ runs.faults > 0 \/ runs.installer > 1 \/ runs.removed
    \/ file = current /\ (current # Install \/ runs.skipped)

=============================================================================
