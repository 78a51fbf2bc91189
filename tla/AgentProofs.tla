----------------------------- MODULE AgentProofs -----------------------------
(***************************************************************************)
(* Proofs about the agent and the texts it deals in.                       *)
(*                                                                         *)
(* Registration, for any number of processes, runs and faults: an answer   *)
(* is current until it is in the file, a token is accepted once, the       *)
(* service is started after the exchange or by an installer that skips     *)
(* register, and only a fault, a second installation or the uninstaller    *)
(* cuts a host off.                                                        *)
(*                                                                         *)
(* Names and AgentConfig, for refs and files of any length and texts,      *)
(* identifiers and fractions of any size: what a token consists of, which  *)
(* release keys differ, that texts of times are ordered as the times are,  *)
(* and which lines of a file decide.  Induction along a text or a file is  *)
(* the least number a set of lengths has, applied to the lengths where the *)
(* claim fails; what a fold makes of each prefix is a function, which      *)
(* FoldExists gives.                                                       *)
(***************************************************************************)
EXTENDS Registration, MCTexts, WellFoundedInduction, FiniteSetTheorems,
        SequenceTheorems, TLAPS

\* The steps of a process with a token in hand, and of one that was answered.
Sending == {"wait", "open", "fill"}
Answered == {"open", "fill"}

\* Nobody has a token the server has not made.
Known ==
  /\ file <= current
  /\ \A t \in late : t <= current
  /\ \A p \in Procs : proc[p].step \in Sending => proc[p].token <= current

\* An answered process is the only one that has the current token.
Holders ==
  \A p \in Procs : proc[p].step \in Answered =>
    /\ proc[p].token = current /\ current > Install
    /\ file # current /\ current \notin late
    /\ \A q \in Procs \ {p} : proc[q].step \in Sending => proc[q].token # current

\* Whatever ended well has exchanged a token, or an installer was told to skip
\* register.
ExchangedOrSkipped == current > Install \/ runs.skipped

Exchanged ==
  /\ \A p \in Procs : At(p, "ok") => ExchangedOrSkipped
  /\ \A p \in Procs : At(p, "plant") /\ proc[p].kind = "skip" => runs.skipped
  /\ service => ExchangedOrSkipped

\* The current token was not accepted yet, nor any later one.
Spent == \A t \in DOMAIN accepted : accepted[t] <= 1 /\ (t >= current => accepted[t] = 0)

\* No fault, one installation, no uninstaller.
Undisturbed == runs.faults = 0 /\ runs.installer <= 1 /\ ~runs.removed

\* Until the install token is in the file nothing can be sent.
BeforePlant ==
  (runs.installer = 0 \/ \E p \in Procs : At(p, "plant")) =>
    /\ file = NoToken /\ current = Install
    /\ \A p \in Procs : proc[p].step \notin Sending

\* In a plain history the current token is the install token, in the file, or
\* on its way there.
OnItsWay ==
  /\ late = {}
  /\ BeforePlant
  /\ runs.installer = 0 => \A p \in Procs : ~At(p, "plant")
  /\ \A p, q \in Procs : At(p, "plant") /\ At(q, "plant") => p = q
  /\ \A p \in Procs : At(p, "fill") => file # Install
  /\ \/ current = Install \/ file = current
     \/ \E p \in Procs : proc[p].step \in Answered

RInv == TypeOK /\ Known /\ Holders /\ Exchanged /\ Spent /\ (Undisturbed => OnItsWay)

-----------------------------------------------------------------------------

\* The fields a process has at each step of register.
LEMMA ProcFields ==
  ASSUME TypeOK, NEW p \in Procs
  PROVE  /\ proc[p] # Idle => proc[p].kind \in Kinds
         /\ proc[p].step \in Sending => proc[p].token \in Nat /\ proc[p].kind \in Kinds
         /\ proc[p].step \in {"plant", "read", "ok"} => proc[p].kind \in Kinds
  BY DEF TypeOK, Proc, Idle, Sending

\* What a process becomes, and the others stay.
LEMMA Becoming ==
  ASSUME TypeOK, NEW p \in Procs, NEW state \in Proc, Become(p, state)
  PROVE  /\ proc' \in [Procs -> Proc] /\ proc'[p] = state
         /\ \A q \in Procs \ {p} : proc'[q] = proc[q]
  BY DEF TypeOK, Become

\* The states a process can get into.
LEMMA States ==
  ASSUME NEW kind \in Kinds
  PROVE  /\ Idle \in Proc
         /\ \A step \in {"plant", "read", "ok"} : [step |-> step, kind |-> kind] \in Proc
         /\ \A step \in Sending, t \in Nat : [step |-> step, kind |-> kind, token |-> t] \in Proc
  BY DEF Proc, Sending

\* RegisterHostAgent replaces the current token by a new one.
LEMMA Accepting ==
  ASSUME TypeOK, Spent, NEW t \in Nat, Accept(t)
  PROVE  /\ t = current /\ current' = current + 1 /\ current' \in Nat
         /\ accepted' \in [0 .. MaxRuns + MaxHand -> Nat]
         /\ Spent'
  <1> DEFINE Tokens == 0 .. MaxRuns + MaxHand
  <1>1. t = current /\ current \in Nat /\ current' = current + 1
    BY DEF TypeOK, Accept, Granted
  <1>2. /\ accepted \in [Tokens -> Nat]
        /\ accepted' = [accepted EXCEPT ![t] = accepted[t] + 1]
    BY DEF TypeOK, Accept
  <1>3. \A u \in Tokens : u \in Int
    BY RegistrationAssumption
  <1>4. \A u \in Tokens : accepted[u] <= 1 /\ (u >= current => accepted[u] = 0)
    BY <1>2 DEF Spent
  <1> HIDE DEF Tokens
  <1>5. accepted' \in [Tokens -> Nat]
    <2>1. CASE t \in Tokens
      BY <1>2, <2>1
    <2>2. CASE t \notin Tokens
      BY <1>2, <2>2
    <2> QED BY <2>1, <2>2
  <1>6. \A u \in Tokens : accepted'[u] = IF u = t THEN accepted[u] + 1 ELSE accepted[u]
    BY <1>2
  <1>7. \A u \in Tokens : accepted'[u] <= 1 /\ (u >= current + 1 => accepted'[u] = 0)
    BY <1>1, <1>2, <1>3, <1>4, <1>6
  <1>8. Spent'
    BY <1>1, <1>5, <1>7 DEF Spent
  <1> QED BY <1>1, <1>5, <1>8 DEF Tokens

\* A fault ends what is plain, and nothing makes a history plain again.
LEMMA Faulty ==
  ASSUME TypeOK, Fault
  PROVE  /\ ~Undisturbed' /\ runs'.skipped = runs.skipped
         /\ runs' \in [installer : Nat, hand : Nat, faults : Nat,
                 skipped : BOOLEAN, removed : BOOLEAN]
  BY DEF TypeOK, Fault, Undisturbed

-----------------------------------------------------------------------------
(* The initial state, and the steps of a process.                          *)

\* It holds at first.
LEMMA InitHolds == Init => RInv
  <1> SUFFICES ASSUME Init PROVE RInv
    OBVIOUS
  <1>1. \A p \in Procs : proc[p].step = "idle"
    BY DEF Init, Idle
  <1>2. TypeOK
    BY RegistrationAssumption DEF Init, TypeOK, Proc, Install, NoToken
  <1>3. Known /\ Holders /\ Exchanged
    BY <1>1 DEF Init, Known, Holders, Exchanged, ExchangedOrSkipped, At, Sending,
                   Answered, Install, NoToken
  <1>4. Spent
    BY DEF Init, Spent
  <1>5. OnItsWay
    BY <1>1 DEF Init, OnItsWay, BeforePlant, At, Sending, Answered, Install, NoToken
  <1> QED BY <1>2, <1>3, <1>4, <1>5 DEF RInv

\* A process that gets into a state without a token.
LEMMA Releasing ==
  ASSUME RInv, NEW p \in Procs, NEW state \in Proc, Become(p, state),
         state.step \in {"idle", "read", "ok"},
         UNCHANGED <<current, accepted, file, late>>
  PROVE  /\ proc' \in [Procs -> Proc] /\ Known' /\ Holders' /\ Spent'
         /\ OnItsWay /\ runs'.installer = runs.installer
            /\ proc[p].step \notin {"plant", "open", "fill"} => OnItsWay'
  <1>1. /\ proc' \in [Procs -> Proc] /\ proc'[p] = state
        /\ \A q \in Procs \ {p} : proc'[q] = proc[q]
    BY Becoming DEF RInv
  <1>2. Known'
    BY <1>1 DEF RInv, Known, Sending
  <1>3. Holders'
    BY <1>1 DEF RInv, Holders, Sending, Answered
  <1>4. Spent'
    BY DEF RInv, Spent
  <1>5. ASSUME OnItsWay, runs'.installer = runs.installer,
               proc[p].step \notin {"plant", "open", "fill"}
        PROVE  OnItsWay'
    <2>1. \A q \in Procs : /\ At(q, "plant")' <=> At(q, "plant")
                           /\ proc'[q].step \in Sending => proc[q].step \in Sending
                           /\ At(q, "fill")' => At(q, "fill")
                           /\ proc[q].step \in Answered => proc'[q].step \in Answered
      BY <1>1, <1>5 DEF At, Sending, Answered
    <2>2. BeforePlant'
      BY <1>5, <2>1 DEF OnItsWay, BeforePlant
    <2> QED BY <1>5, <2>1, <2>2 DEF OnItsWay
  <1> QED BY <1>1, <1>2, <1>3, <1>4, <1>5

\* What the invariant says of a process.
LEMMA Facts ==
  ASSUME RInv
  PROVE  /\ current \in Nat /\ file \in Nat \cup {NoToken} /\ late \subseteq Nat
         /\ proc \in [Procs -> Proc] /\ service \in BOOLEAN
         /\ runs \in [installer : Nat, hand : Nat, faults : Nat,
                 skipped : BOOLEAN, removed : BOOLEAN]
         /\ accepted \in [0 .. MaxRuns + MaxHand -> Nat]
         /\ \A p \in Procs : proc[p].step \in Sending =>
              proc[p].token \in Nat /\ proc[p].token <= current /\ proc[p].kind \in Kinds
  BY ProcFields DEF RInv, TypeOK, Known

\* Once a token was exchanged only an installer that starts matters.
LEMMA ExchangedNow ==
  ASSUME RInv, current' \in Nat, current' > Install, runs'.skipped = runs.skipped,
         \A q \in Procs : At(q, "plant")' => proc'[q] = proc[q]
  PROVE  Exchanged'
  BY DEF RInv, Exchanged, ExchangedOrSkipped, At

\* Steps without a fault that leave runs alone keep a history plain.
LEMMA StillPlain ==
  ASSUME RInv, UNCHANGED runs, Undisturbed'
  PROVE  Undisturbed /\ OnItsWay /\ runs'.installer = runs.installer
  BY DEF RInv, Undisturbed

\* The installer starts.
LEMMA InstallerHolds == ASSUME RInv, NEW p \in Procs, Installer(p) PROVE RInv'
  <1>0. PICK kind \in {"installer", "skip"} :
          /\ Become(p, [step |-> "plant", kind |-> kind])
          /\ runs' = [runs EXCEPT !.installer = @ + 1, !.skipped = @ \/ kind = "skip"]
    BY DEF Installer
  <1> DEFINE state == [step |-> "plant", kind |-> kind]
  <1>1. state \in Proc /\ state.step = "plant" /\ state.kind = kind
    BY States DEF Kinds
  <1>2. /\ proc' \in [Procs -> Proc] /\ proc'[p] = state /\ proc[p].step = "idle"
        /\ \A q \in Procs \ {p} : proc'[q] = proc[q]
    BY <1>0, <1>1, Becoming DEF RInv, Installer, Idle
  <1> HIDE DEF state
  <1>7. /\ runs' \in [installer : Nat, hand : Nat, faults : Nat,
                     skipped : BOOLEAN, removed : BOOLEAN]
        /\ runs'.installer = runs.installer + 1 /\ runs'.faults = runs.faults
        /\ runs'.removed = runs.removed
        /\ (runs.skipped \/ kind = "skip") => runs'.skipped
    <2> DEFINE skips == runs.skipped \/ kind = "skip"
    <2>1. /\ runs \in [installer : Nat, hand : Nat, faults : Nat,
                       skipped : BOOLEAN, removed : BOOLEAN]
          /\ runs' = [runs EXCEPT !.installer = runs.installer + 1, !.skipped = skips]
      BY <1>0, Facts
    <2>2. skips \in BOOLEAN /\ ((runs.skipped \/ kind = "skip") => skips)
      OBVIOUS
    <2> HIDE DEF skips
    <2>3. /\ runs'.installer = runs.installer + 1 /\ runs'.faults = runs.faults
          /\ runs'.removed = runs.removed /\ runs'.skipped = skips
      BY <2>1
    <2>4. runs' \in [installer : Nat, hand : Nat, faults : Nat,
                     skipped : BOOLEAN, removed : BOOLEAN]
      <3>1. /\ runs.installer + 1 \in Nat /\ runs.hand \in Nat /\ runs.faults \in Nat
            /\ runs.removed \in BOOLEAN
        BY <2>1
      <3>2. runs' = [installer |-> runs.installer + 1, hand |-> runs.hand,
                     faults |-> runs.faults, skipped |-> skips, removed |-> runs.removed]
        BY <2>1
      <3> QED BY <2>2, <3>1, <3>2
    <2> QED BY <2>2, <2>3, <2>4
  <1>3. TypeOK'
    BY <1>2, <1>7, Facts DEF TypeOK, Installer
  <1>4. Known' /\ Spent'
    BY <1>1, <1>2, Facts DEF RInv, Known, Spent, Installer, Sending, NoToken
  <1>5. Holders' /\ Exchanged'
    <2>1. Holders'
      BY <1>1, <1>2, Facts DEF RInv, Holders, Installer, Sending, Answered, NoToken
    <2>2. Exchanged'
      BY <1>1, <1>2, <1>7, Facts DEF RInv, Exchanged, ExchangedOrSkipped, Installer, At
    <2> QED BY <2>1, <2>2
  <1>6. ASSUME Undisturbed' PROVE OnItsWay'
    <2>1. Undisturbed /\ runs.installer = 0 /\ runs'.installer = 1 /\ OnItsWay
      BY <1>6, <1>7, Facts DEF RInv, Undisturbed, Installer
    <2>2. /\ current = Install /\ \A q \in Procs : proc[q].step \notin Sending /\ ~At(q, "plant")
      BY <2>1 DEF OnItsWay, BeforePlant
    <2>3. BeforePlant'
      BY <1>1, <1>2, <2>1, <2>2 DEF BeforePlant, Installer, Sending
    <2>4. \A q, r \in Procs : At(q, "plant")' /\ At(r, "plant")' => q = r
      BY <1>2, <2>2 DEF At
    <2>5. \A q \in Procs : ~At(q, "fill")'
      BY <1>1, <1>2, <2>2 DEF At, Sending
    <2> QED BY <2>1, <2>2, <2>3, <2>4, <2>5 DEF OnItsWay, Installer
  <1> QED BY <1>3, <1>4, <1>5, <1>6 DEF RInv

\* The installer writes the install token.
LEMMA PlantHolds == ASSUME RInv, NEW p \in Procs, Plant(p) PROVE RInv'
  <1> DEFINE step == IF proc[p].kind = "skip" THEN "ok" ELSE "read"
             state == [step |-> step, kind |-> proc[p].kind]
  <1>1. /\ state \in Proc /\ state.step \in {"read", "ok"} /\ proc[p].step = "plant"
        /\ state.step = "ok" => runs.skipped
    BY States, ProcFields DEF RInv, Exchanged, Plant, At
  <1>2. /\ proc' \in [Procs -> Proc] /\ proc'[p] = state
        /\ \A q \in Procs \ {p} : proc'[q] = proc[q]
    BY <1>1, Becoming DEF RInv, Plant, GoOn
  <1> HIDE DEF state
  <1>3. TypeOK'
    BY <1>2, Facts DEF TypeOK, Plant, Install
  <1>4. Known' /\ Spent'
    BY <1>1, <1>2, Facts DEF RInv, Known, Spent, Plant, Sending, Install
  <1>5. Holders' /\ Exchanged'
    BY <1>1, <1>2, Facts DEF RInv, Holders, Exchanged, ExchangedOrSkipped, Plant, At, Sending,
                              Answered, Install
  <1>6. ASSUME Undisturbed' PROVE OnItsWay'
    <2>1. OnItsWay /\ runs' = runs /\ runs.installer # 0
      BY <1>1, <1>6, StillPlain DEF Plant, OnItsWay, At
    <2>2. /\ current = Install /\ late = {}
          /\ \A q \in Procs : proc[q].step \notin Sending
          /\ \A q \in Procs \ {p} : ~At(q, "plant")
      BY <1>1, <2>1 DEF OnItsWay, BeforePlant, At
    <2>3. \A q \in Procs : ~At(q, "plant")' /\ ~At(q, "fill")'
      BY <1>1, <1>2, <2>2 DEF At, Sending
    <2> QED BY <2>1, <2>2, <2>3 DEF OnItsWay, BeforePlant, Plant
  <1> QED BY <1>3, <1>4, <1>5, <1>6 DEF RInv

\* An admin starts register.
LEMMA ByHandHolds == ASSUME RInv, NEW p \in Procs, ByHand(p) PROVE RInv'
  <1> DEFINE state == [step |-> "read", kind |-> "hand"]
  <1>1. state \in Proc /\ state.step = "read" /\ proc[p].step = "idle"
    BY States DEF Kinds, ByHand, Idle
  <1>2. Become(p, state) /\ UNCHANGED <<current, accepted, file, late, service>>
    BY DEF ByHand
  <1>3. runs' \in [installer : Nat, hand : Nat, faults : Nat,
                 skipped : BOOLEAN, removed : BOOLEAN]
        /\ runs'.installer = runs.installer /\ (Undisturbed' => Undisturbed)
        /\ runs'.skipped = runs.skipped
    BY Facts DEF ByHand, Undisturbed
  <1>4. proc'[p] = state /\ \A q \in Procs \ {p} : proc'[q] = proc[q]
    BY <1>1, <1>2, Becoming DEF RInv
  <1> HIDE DEF state
  <1>5. /\ proc' \in [Procs -> Proc] /\ Known' /\ Holders' /\ Spent'
        /\ OnItsWay => OnItsWay'
    BY <1>1, <1>2, <1>3, Releasing
  <1>6. TypeOK' /\ Exchanged'
    BY <1>1, <1>2, <1>3, <1>4, <1>5, Facts DEF TypeOK, RInv, Exchanged, ExchangedOrSkipped, At
  <1> QED BY <1>3, <1>5, <1>6 DEF RInv

\* The token is read and sent.
LEMMA SendHolds == ASSUME RInv, NEW p \in Procs, Send(p) PROVE RInv'
  <1>1. /\ proc[p].step = "read" /\ proc[p].kind \in Kinds
        /\ UNCHANGED <<current, accepted, file, late, service, runs>>
    BY ProcFields DEF RInv, Send, At
  <1>2. CASE file = NoToken
    <2>1. Become(p, Idle) /\ Idle \in Proc /\ Idle.step = "idle"
      BY <1>2, States DEF Send, Kinds, Idle
    <2>2. proc'[p] = Idle /\ \A q \in Procs \ {p} : proc'[q] = proc[q]
      BY <2>1, Becoming DEF RInv
    <2>3. /\ proc' \in [Procs -> Proc] /\ Known' /\ Holders' /\ Spent'
          /\ OnItsWay => OnItsWay'
      BY <1>1, <2>1, Releasing
    <2>4. TypeOK' /\ Exchanged'
      BY <1>1, <2>1, <2>2, <2>3, Facts DEF TypeOK, RInv, Exchanged, ExchangedOrSkipped, At
    <2> QED BY <1>1, <2>3, <2>4, StillPlain DEF RInv
  <1>3. CASE file # NoToken
    <2> DEFINE state == [step |-> "wait", kind |-> proc[p].kind, token |-> file]
    <2>1. file \in Nat /\ state \in Proc /\ state.step = "wait" /\ state.token = file
      BY <1>1, <1>3, States, Facts DEF Sending
    <2>2. /\ proc' \in [Procs -> Proc] /\ proc'[p] = state
          /\ \A q \in Procs \ {p} : proc'[q] = proc[q]
      BY <1>3, <2>1, Becoming DEF RInv, Send, Holding
    <2> HIDE DEF state
    <2>3. TypeOK' /\ Known' /\ Spent'
      BY <1>1, <2>1, <2>2, Facts DEF TypeOK, RInv, Known, Spent, Sending
    <2>4. Holders' /\ Exchanged'
      BY <1>1, <2>1, <2>2 DEF RInv, Holders, Exchanged, ExchangedOrSkipped, Sending, Answered, At
    <2>5. ASSUME Undisturbed' PROVE OnItsWay'
      <3>1. OnItsWay /\ runs' = runs
        BY <1>1, <2>5, StillPlain
      <3>2. \A q \in Procs : /\ At(q, "plant")' <=> At(q, "plant")
                             /\ At(q, "fill")' <=> At(q, "fill")
                             /\ proc'[q].step \in Answered <=> proc[q].step \in Answered
        BY <1>1, <2>1, <2>2 DEF At, Answered
      <3>3. BeforePlant'
        BY <1>1, <1>3, <3>1, <3>2 DEF OnItsWay, BeforePlant
      <3> QED BY <1>1, <3>1, <3>2, <3>3 DEF OnItsWay
    <2> QED BY <2>3, <2>4, <2>5 DEF RInv
  <1> QED BY <1>2, <1>3

\* A token that is accepted was not answered to anybody who has not yet
\* written it.
LEMMA NobodyAnswered ==
  ASSUME RInv, NEW t, Accept(t),
         t \in late \/ \E p \in Procs : At(p, "wait") /\ proc[p].token = t
  PROVE  \A q \in Procs : proc[q].step \notin Answered
  BY DEF RInv, Holders, Accept, Granted, At, Sending, Answered

\* The server answers.
LEMMA ServeHolds == ASSUME RInv, NEW p \in Procs, Serve(p) PROVE RInv'
  <1>1. /\ proc[p].step = "wait" /\ proc[p].token \in Nat /\ proc[p].kind \in Kinds
        /\ UNCHANGED <<file, late, service, runs>>
    BY Facts DEF Serve, At, Sending
  <1>2. CASE Accept(proc[p].token) /\ Holding(p, "open", current + 1)
    <2> DEFINE state == [step |-> "open", kind |-> proc[p].kind, token |-> current + 1]
    <2>1. /\ current' = current + 1 /\ current' \in Nat
          /\ accepted' \in [0 .. MaxRuns + MaxHand -> Nat] /\ Spent'
      BY <1>1, <1>2, Accepting DEF RInv
    <2>2. \A q \in Procs : proc[q].step \notin Answered
      BY <1>1, <1>2, NobodyAnswered DEF At
    <2>3. state \in Proc /\ state.step = "open" /\ state.token = current + 1
      BY <1>1, <2>1, States, Facts DEF Sending
    <2>4. /\ proc' \in [Procs -> Proc] /\ proc'[p] = state
          /\ \A q \in Procs \ {p} : proc'[q] = proc[q]
      BY <1>2, <2>3, Becoming DEF RInv, Holding
    <2> HIDE DEF state
    <2>5. TypeOK'
      BY <1>1, <2>1, <2>4, Facts DEF TypeOK
    <2>6. Known'
      BY <1>1, <2>1, <2>3, <2>4, Facts DEF RInv, Known, Sending, NoToken
    <2>7. Holders'
      BY <1>1, <2>1, <2>2, <2>3, <2>4, Facts
         DEF RInv, Known, Holders, Sending, Answered, Install, NoToken
    <2>8. Exchanged'
      <3>1. current' > Install
        BY <2>1, Facts DEF Install
      <3> QED BY <1>1, <2>1, <2>3, <2>4, <3>1, ExchangedNow DEF At
    <2>9. ASSUME Undisturbed' PROVE OnItsWay'
      <3>1. OnItsWay /\ runs' = runs
        BY <1>1, <2>9, StillPlain
      <3>2. \A q \in Procs : (At(q, "plant")' <=> At(q, "plant")) /\ ~At(q, "fill")'
        BY <1>1, <2>2, <2>3, <2>4 DEF At, Answered
      <3>3. BeforePlant'
        BY <1>1, <3>1, <3>2 DEF OnItsWay, BeforePlant, Sending
      <3> QED BY <1>1, <2>3, <2>4, <3>1, <3>2, <3>3 DEF OnItsWay, Answered
    <2> QED BY <2>1, <2>5, <2>6, <2>7, <2>8, <2>9 DEF RInv
  <1>3. CASE Become(p, Idle) /\ UNCHANGED <<current, accepted>>
    <2>1. Idle \in Proc /\ Idle.step = "idle"
      BY States DEF Kinds, Idle
    <2>2. proc'[p] = Idle /\ \A q \in Procs \ {p} : proc'[q] = proc[q]
      BY <1>3, <2>1, Becoming DEF RInv
    <2>3. /\ proc' \in [Procs -> Proc] /\ Known' /\ Holders' /\ Spent'
          /\ OnItsWay => OnItsWay'
      BY <1>1, <1>3, <2>1, Releasing
    <2>4. TypeOK' /\ Exchanged'
      BY <1>1, <1>3, <2>1, <2>2, <2>3, Facts DEF TypeOK, RInv, Exchanged, ExchangedOrSkipped, At
    <2> QED BY <1>1, <2>3, <2>4, StillPlain DEF RInv
  <1> QED BY <1>2, <1>3 DEF Serve

\* A request is served after its process gave up.
LEMMA ServeLateHolds == ASSUME RInv, NEW t \in late, ServeLate(t) PROVE RInv'
  <1>1. /\ t \in late /\ late' = late \ {t} /\ t \in Nat
        /\ UNCHANGED <<file, proc, service, runs>>
    BY Facts DEF ServeLate
  <1>2. ~Undisturbed'
    BY <1>1 DEF RInv, Undisturbed, OnItsWay
  <1>3. CASE Accept(t)
    <2>1. /\ current' = current + 1 /\ current' \in Nat
          /\ accepted' \in [0 .. MaxRuns + MaxHand -> Nat] /\ Spent'
      BY <1>1, <1>3, Accepting DEF RInv
    <2>2. \A q \in Procs : proc[q].step \notin Answered
      BY <1>1, <1>3, NobodyAnswered
    <2>3. TypeOK' /\ Known'
      BY <1>1, <2>1, Facts DEF RInv, TypeOK, Known, NoToken
    <2>4. Holders' /\ Exchanged'
      <3>1. Holders'
        BY <1>1, <2>2 DEF Holders
      <3>2. current' > Install
        BY <2>1, Facts DEF Install
      <3> QED BY <1>1, <2>1, <3>1, <3>2, ExchangedNow DEF At
    <2> QED BY <1>2, <2>1, <2>3, <2>4 DEF RInv
  <1>4. CASE UNCHANGED <<current, accepted>>
    <2>1. TypeOK' /\ Known' /\ Spent'
      BY <1>1, <1>4, Facts DEF RInv, TypeOK, Known, Spent
    <2>2. Holders' /\ Exchanged'
      BY <1>1, <1>4 DEF RInv, Holders, Exchanged, ExchangedOrSkipped, At
    <2> QED BY <1>2, <2>1, <2>2 DEF RInv
  <1> QED BY <1>3, <1>4 DEF ServeLate

\* writeSecret truncates the file.
LEMMA OpenHolds == ASSUME RInv, NEW p \in Procs, Open(p) PROVE RInv'
  <1> DEFINE state == [step |-> "fill", kind |-> proc[p].kind, token |-> proc[p].token]
  <1>1. /\ proc[p].step = "open" /\ file' = NoToken
        /\ UNCHANGED <<current, accepted, late, service, runs>>
    BY DEF Open, At
  <1>2. state \in Proc /\ state.step = "fill" /\ state.token = proc[p].token
    BY <1>1, States, Facts DEF Sending
  <1>3. /\ proc' \in [Procs -> Proc] /\ proc'[p] = state
        /\ \A q \in Procs \ {p} : proc'[q] = proc[q]
    BY <1>2, Becoming DEF RInv, Open, Holding
  <1> HIDE DEF state
  <1>4. TypeOK' /\ Known' /\ Spent'
    BY <1>1, <1>2, <1>3, Facts DEF TypeOK, RInv, Known, Spent, Sending, NoToken
  <1>5. Holders' /\ Exchanged'
    BY <1>1, <1>2, <1>3, Facts
       DEF RInv, Holders, Exchanged, ExchangedOrSkipped, Sending, Answered, At, NoToken, Install
  <1>6. ASSUME Undisturbed' PROVE OnItsWay'
    <2>1. OnItsWay /\ runs' = runs
      BY <1>1, <1>6, StillPlain
    <2>2. \A q \in Procs : At(q, "plant")' <=> At(q, "plant")
      BY <1>1, <1>2, <1>3 DEF At
    <2>3. BeforePlant'
      BY <1>1, <2>1, <2>2 DEF OnItsWay, BeforePlant, Sending
    <2>4. proc'[p].step \in Answered /\ file' # Install
      BY <1>1, <1>2, <1>3 DEF Answered, NoToken, Install
    <2> QED BY <1>1, <2>1, <2>2, <2>3, <2>4 DEF OnItsWay
  <1> QED BY <1>4, <1>5, <1>6 DEF RInv

\* writeSecret writes the token.
LEMMA FillHolds == ASSUME RInv, NEW p \in Procs, Fill(p) PROVE RInv'
  <1> DEFINE state == [step |-> "ok", kind |-> proc[p].kind]
  <1>1. /\ proc[p].step = "fill" /\ proc[p].token \in Nat
        /\ file' = IF file = Install THEN NoToken ELSE proc[p].token
        /\ UNCHANGED <<current, accepted, late, service, runs>>
    BY Facts DEF Fill, At, Sending
  <1>2. state \in Proc /\ state.step = "ok"
    BY <1>1, States, Facts DEF Sending
  <1>3. /\ proc' \in [Procs -> Proc] /\ proc'[p] = state
        /\ \A q \in Procs \ {p} : proc'[q] = proc[q]
    BY <1>2, Becoming DEF RInv, Fill, GoOn
  <1> HIDE DEF state
  <1>4. /\ proc[p].token = current /\ current > Install
        /\ \A q \in Procs \ {p} : proc[q].step \notin Answered
    BY <1>1 DEF RInv, Holders, Sending, Answered
  <1>5. TypeOK' /\ Known' /\ Spent'
    BY <1>1, <1>2, <1>3, <1>4, Facts DEF TypeOK, RInv, Known, Spent, Sending, NoToken
  <1>6. \A q \in Procs : proc'[q].step \notin Answered
    BY <1>2, <1>3, <1>4 DEF Answered
  <1>7. Holders' /\ Exchanged'
    <2>1. Holders'
      BY <1>6 DEF Holders
    <2>2. current' > Install /\ current' \in Nat /\ runs'.skipped = runs.skipped
      BY <1>1, <1>4, Facts
    <2> QED BY <1>2, <1>3, <2>1, <2>2, ExchangedNow DEF At
  <1>8. ASSUME Undisturbed' PROVE OnItsWay'
    <2>1. OnItsWay /\ runs' = runs
      BY <1>1, <1>8, StillPlain
    <2>2. \A q \in Procs : (At(q, "plant")' <=> At(q, "plant")) /\ ~At(q, "fill")'
      BY <1>1, <1>2, <1>3, <1>6 DEF At, Answered
    <2>3. file' = current'
      BY <1>1, <1>4, <2>1 DEF OnItsWay, At
    <2>4. BeforePlant'
      BY <1>1, <2>1, <2>2 DEF OnItsWay, BeforePlant, Sending
    <2> QED BY <1>1, <2>1, <2>2, <2>3, <2>4 DEF OnItsWay
  <1> QED BY <1>5, <1>7, <1>8 DEF RInv

\* The installer goes on, or register ends.
LEMMA ReturnHolds == ASSUME RInv, NEW p \in Procs, Return(p) PROVE RInv'
  <1>1. /\ proc[p].step = "ok" /\ proc[p].kind \in Kinds /\ Become(p, Idle)
        /\ service' \in BOOLEAN /\ (service' => ExchangedOrSkipped)
        /\ UNCHANGED <<current, accepted, file, late, runs>>
    BY ProcFields DEF RInv, Return, Exchanged, ExchangedOrSkipped, At
  <1>2. Idle \in Proc /\ Idle.step = "idle"
    BY States DEF Kinds, Idle
  <1>3. proc'[p] = Idle /\ \A q \in Procs \ {p} : proc'[q] = proc[q]
    BY <1>1, <1>2, Becoming DEF RInv
  <1>4. /\ proc' \in [Procs -> Proc] /\ Known' /\ Holders' /\ Spent'
        /\ OnItsWay => OnItsWay'
    BY <1>1, <1>2, Releasing
  <1>5. TypeOK' /\ Exchanged'
    BY <1>1, <1>2, <1>3, <1>4, Facts DEF TypeOK, RInv, Exchanged, ExchangedOrSkipped, At
  <1> QED BY <1>1, <1>4, <1>5, StillPlain DEF RInv

\* The uninstaller removes the file.
LEMMA UninstallHolds == ASSUME RInv, Uninstall PROVE RInv'
  <1>1. /\ \A p \in Procs : proc[p].step = "idle"
        /\ service' = FALSE /\ file' = NoToken
        /\ runs' = [runs EXCEPT !.removed = TRUE]
        /\ UNCHANGED <<current, accepted, proc, late>>
    BY DEF Uninstall, Idle
  <1>2. TypeOK' /\ ~Undisturbed'
    BY <1>1, Facts DEF TypeOK, Undisturbed
  <1>3. Known' /\ Spent'
    BY <1>1, Facts DEF RInv, Known, Spent, NoToken
  <1>4. Holders' /\ Exchanged'
    BY <1>1 DEF Holders, Exchanged, ExchangedOrSkipped, Answered, At
  <1> QED BY <1>2, <1>3, <1>4 DEF RInv

-----------------------------------------------------------------------------
(* The faults.                                                             *)

\* A step fails, or a process dies.
LEMMA FaultHolds == ASSUME RInv, NEW p \in Procs, Trouble(p) PROVE RInv'
  <1>1. /\ Become(p, Idle) /\ Idle \in Proc /\ Idle.step = "idle"
        /\ UNCHANGED <<file, service>>
    BY States DEF Trouble, Refused, Abandon, LoseAnswer, Die, Kinds, Idle
  <1>2. /\ proc' \in [Procs -> Proc] /\ proc'[p] = Idle
        /\ \A q \in Procs \ {p} : proc'[q] = proc[q]
    BY <1>1, Becoming DEF RInv
  <1>3. /\ ~Undisturbed' /\ runs'.skipped = runs.skipped
        /\ runs' \in [installer : Nat, hand : Nat, faults : Nat,
                 skipped : BOOLEAN, removed : BOOLEAN]
    BY Faulty DEF RInv, Trouble, Refused, Abandon, LoseAnswer, Die
  <1>4. CASE Refused(p) \/ Die(p)
    <2>1. UNCHANGED <<current, accepted, late>>
      BY <1>4 DEF Refused, Die
    <2>2. Known' /\ Holders' /\ Spent'
      BY <1>1, <2>1, Releasing
    <2>3. TypeOK' /\ Exchanged'
      BY <1>1, <1>2, <1>3, <2>1, Facts DEF TypeOK, RInv, Exchanged, ExchangedOrSkipped, At
    <2> QED BY <1>3, <2>2, <2>3 DEF RInv
  <1>5. CASE Abandon(p)
    <2>1. /\ proc[p].step = "wait" /\ proc[p].token \in Nat /\ proc[p].token <= current
          /\ late' = late \cup {proc[p].token} /\ UNCHANGED <<current, accepted>>
      BY <1>5, Facts DEF Abandon, At, Sending
    <2>2. TypeOK' /\ Known' /\ Spent'
      BY <1>1, <1>2, <1>3, <2>1, Facts DEF TypeOK, RInv, Known, Spent, Sending
    <2>3. Holders' /\ Exchanged'
      BY <1>1, <1>2, <1>3, <2>1, Facts
         DEF RInv, Holders, Exchanged, ExchangedOrSkipped, Sending, Answered, At
    <2> QED BY <1>3, <2>2, <2>3 DEF RInv
  <1>6. CASE LoseAnswer(p)
    <2>1. /\ proc[p].step = "wait" /\ proc[p].token \in Nat
          /\ Accept(proc[p].token) /\ late' = late
      BY <1>6, Facts DEF LoseAnswer, At, Sending
    <2>2. /\ current' = current + 1 /\ current' \in Nat
          /\ accepted' \in [0 .. MaxRuns + MaxHand -> Nat] /\ Spent'
      BY <2>1, Accepting DEF RInv
    <2>3. \A q \in Procs : proc[q].step \notin Answered
      BY <2>1, NobodyAnswered DEF At
    <2>4. TypeOK' /\ Known'
      BY <1>1, <1>2, <1>3, <2>1, <2>2, Facts DEF TypeOK, RInv, Known, Sending, NoToken
    <2>5. Holders' /\ Exchanged'
      <3>1. Holders'
        BY <1>1, <1>2, <2>3 DEF Holders, Answered
      <3>2. current' > Install
        BY <2>2, Facts DEF Install
      <3> QED BY <1>1, <1>2, <1>3, <2>2, <3>1, <3>2, ExchangedNow DEF At
    <2> QED BY <1>3, <2>2, <2>4, <2>5 DEF RInv
  <1> QED BY <1>4, <1>5, <1>6 DEF Trouble

-----------------------------------------------------------------------------
(* The theorems.                                                           *)

\* Every step keeps it.
LEMMA StepHolds == RInv /\ [Next]_vars => RInv'
  <1> SUFFICES ASSUME RInv, [Next]_vars PROVE RInv'
    OBVIOUS
  <1>1. ASSUME NEW p \in Procs, Installer(p) \/ ByHand(p) PROVE RInv'
    BY <1>1, InstallerHolds, ByHandHolds
  <1>2. ASSUME NEW p \in Procs, Run(p) PROVE RInv'
    BY <1>2, PlantHolds, SendHolds, ServeHolds, OpenHolds, FillHolds, ReturnHolds DEF Run
  <1>3. ASSUME NEW p \in Procs, Trouble(p) PROVE RInv'
    BY <1>3, FaultHolds
  <1>4. CASE UNCHANGED vars
    <2>1. TypeOK' /\ Known' /\ Spent'
      BY <1>4 DEF vars, RInv, TypeOK, Known, Spent
    <2>2. Holders' /\ Exchanged'
      BY <1>4 DEF vars, RInv, Holders, Exchanged, ExchangedOrSkipped, At
    <2>3. Undisturbed' => OnItsWay'
      BY <1>4 DEF vars, RInv, Undisturbed, OnItsWay, BeforePlant, At
    <2> QED BY <2>1, <2>2, <2>3 DEF RInv
  <1> QED BY <1>1, <1>2, <1>3, <1>4, ServeLateHolds, UninstallHolds DEF Next

\* The inductive invariant holds, for any number of processes, runs and faults.
THEOREM RegistrationInvariant == Spec => []RInv
  BY InitHolds, StepHolds, PTL DEF Spec

\* Every variable has its type, whatever the bounds are.
THEOREM RegistrationTypes == Spec => []TypeOK
  <1>1. RInv => TypeOK
    BY DEF RInv
  <1> QED BY <1>1, RegistrationInvariant, PTL

\* Whoever is handed a token is the only one to have it, and it stays current
\* until writeSecret has written it, however many runs of register and of the
\* installer overlap, and whatever is lost, late or served twice.
THEOREM AnswerStaysCurrent == Spec => []AnsweredIsCurrent
  <1>1. RInv => AnsweredIsCurrent
    BY DEF RInv, Holders, AnsweredIsCurrent, Sending, Answered
  <1> QED BY <1>1, RegistrationInvariant, PTL

\* RegisterHostAgent accepts every token at most once.
THEOREM TokensWorkOnce == Spec => []TokenOnce
  <1>1. RInv => TokenOnce
    BY DEF RInv, Spent, TokenOnce
  <1> QED BY <1>1, RegistrationInvariant, PTL

\* The installer starts the service (set -e) only after a token was exchanged,
\* or when it was told to skip register.
THEOREM ServiceAfterExchange == Spec => []StartedAfterExchange
  <1>1. RInv => StartedAfterExchange
    BY Facts DEF RInv, Exchanged, ExchangedOrSkipped, StartedAfterExchange, Install
  <1> QED BY <1>1, RegistrationInvariant, PTL

\* Without a fault, a second installation or the uninstaller no overlap of the
\* installer with register by hand cuts the host off.
THEOREM StrandingHasReason == Spec => []StrandedWithReason
  <1>1. ASSUME RInv, Stranded, Undisturbed PROVE FALSE
    <2>1. OnItsWay
      BY <1>1 DEF RInv
    <2>2. \E p \in Procs : proc[p].step \in Answered
      BY <1>1, <2>1 DEF OnItsWay, Stranded
    <2> QED BY <1>1, <2>2 DEF RInv, Holders, Stranded, Answered
  <1>2. RInv => StrandedWithReason
    BY <1>1, Facts DEF StrandedWithReason, Undisturbed
  <1> QED BY <1>2, RegistrationInvariant, PTL

-----------------------------------------------------------------------------
(* Induction along a text, and folds.                                      *)

\* A set of natural numbers that has a member has a least one.
LEMMA Least ==
  ASSUME NEW T, T \subseteq Nat, T # {}
  PROVE  \E n \in T : \A m \in T : n <= m
<1>1. IsWellFoundedOn(OpToRel(<, Nat), Nat)
  BY NatLessThanWellFounded
<1>2. \E n \in T : \A m \in T : <<m, n>> \notin OpToRel(<, Nat)
  BY <1>1, WFMin
<1>3. \A m, n \in Nat : <<m, n>> \in OpToRel(<, Nat) <=> m < n
  BY DEF OpToRel
<1>4. \E n \in T : \A m \in T : ~(m < n)
  BY <1>2, <1>3
<1>. QED BY <1>4

\* Induction up to n.
LEMMA UpTo ==
  ASSUME NEW n \in Nat, NEW S, 0 \in S,
         \A i \in 1 .. n : i - 1 \in S => i \in S
  PROVE  0 .. n \subseteq S
<1>. DEFINE D == (0 .. n) \ S
<1>1. SUFFICES ASSUME D # {} PROVE FALSE
  OBVIOUS
<1>2. PICK m \in D : \A k \in D : m <= k
  <2>1. D \subseteq Nat
    OBVIOUS
  <2>. HIDE DEF D
  <2>. QED BY <1>1, <2>1, Least
<1>3. m \in 1 .. n /\ m - 1 \in 0 .. n
  BY <1>2
<1>4. m - 1 \in S
  BY <1>2, <1>3
<1>. QED BY <1>2, <1>3, <1>4

\* The largest number of a set, where there is one.
LEMMA Largest ==
  ASSUME NEW n \in Nat, NEW T, T \subseteq 1 .. n, T # {}
  PROVE  Max(T) \in T /\ \A k \in T : k <= Max(T)
<1>. DEFINE U == {n - k : k \in T}
<1>1. U \subseteq Nat /\ U # {}
  <2>1. PICK k \in T : TRUE
    OBVIOUS
  <2>2. n - k \in U
    OBVIOUS
  <2>3. \A j \in T : n - j \in Nat
    OBVIOUS
  <2>. QED BY <2>2, <2>3
<1>2. PICK u \in U : \A v \in U : u <= v
  <2>. HIDE DEF U
  <2>. QED BY <1>1, Least
<1>3. PICK k \in T : u = n - k
  BY <1>2
<1>4. \A j \in T : n - k <= n - j
  BY <1>2, <1>3
<1>5. \A j \in T : k >= j
  BY <1>4
<1>6. \E x \in T : \A j \in T : x >= j
  BY <1>5
<1>7. Max(T) \in T /\ \A j \in T : Max(T) >= j
  BY <1>6 DEF Max
<1>8. \A x, j \in Nat : x >= j => j <= x
  OBVIOUS
<1>9. T \subseteq Nat
  OBVIOUS
<1>. QED BY <1>7, <1>8, <1>9

\* A member that none exceeds is the largest number of a set.
LEMMA LargestOf ==
  ASSUME NEW n \in Nat, NEW T, T \subseteq 1 .. n, NEW m \in T, \A k \in T : k <= m
  PROVE  Max(T) = m
<1>1. Max(T) \in T /\ \A k \in T : k <= Max(T)
  BY Largest
<1>2. m \in Nat /\ Max(T) \in Nat
  <2>1. T \subseteq Nat
    OBVIOUS
  <2>. QED BY <1>1, <2>1
<1>3. m <= Max(T) /\ Max(T) <= m
  BY <1>1
<1>. QED BY <1>2, <1>3

\* it[T] is what a fold makes of the elements with an index in T; g[i] is the
\* step with element i.
IsFold(it, a, n, g) == \A T \in SUBSET (1 .. n) :
  it[T] = IF T = {} THEN a ELSE g[Max(T)][it[T \ {Max(T)}]]

\* There is such a function.
LEMMA FoldExists ==
  ASSUME NEW A, NEW a \in A, NEW n \in Nat, NEW g \in [1 .. n -> [A -> A]]
  PROVE  \E it \in [SUBSET (1 .. n) -> A] : IsFold(it, a, n, g)
<1>. DEFINE Is(k, it) == \A T \in SUBSET (1 .. k) :
                it[T] = IF T = {} THEN a ELSE g[Max(T)][it[T \ {Max(T)}]]
            S == {k \in 0 .. n : \E it \in [SUBSET (1 .. k) -> A] : Is(k, it)}
<1>1. 0 \in S
  <2>1. SUBSET (1 .. 0) = {{}}
    BY 1 .. 0 = {}
  <2>2. [T \in SUBSET (1 .. 0) |-> a] \in [SUBSET (1 .. 0) -> A]
    OBVIOUS
  <2>3. Is(0, [T \in SUBSET (1 .. 0) |-> a])
    BY <2>1
  <2>4. \E it \in [SUBSET (1 .. 0) -> A] : Is(0, it)
    <3>. HIDE DEF Is
    <3>. QED BY <2>2, <2>3
  <2>5. 0 \in 0 .. n
    OBVIOUS
  <2>. HIDE DEF Is
  <2>. QED BY <2>4, <2>5
<1>2. ASSUME NEW i \in 1 .. n, i - 1 \in S
      PROVE  i \in S
  <2>1. PICK f \in [SUBSET (1 .. i - 1) -> A] : Is(i - 1, f)
    BY <1>2
  <2>. DEFINE h == [T \in SUBSET (1 .. i) |->
                      IF i \in T THEN g[i][f[T \ {i}]] ELSE f[T]]
  <2>2. \A T \in SUBSET (1 .. i) : T \ {i} \in SUBSET (1 .. i - 1)
    OBVIOUS
  <2>3. \A T \in SUBSET (1 .. i) : i \notin T => T \in SUBSET (1 .. i - 1)
    OBVIOUS
  <2>4. h \in [SUBSET (1 .. i) -> A]
    <3>1. ASSUME NEW T \in SUBSET (1 .. i)
          PROVE  (IF i \in T THEN g[i][f[T \ {i}]] ELSE f[T]) \in A
      BY <2>2, <2>3
    <3>. QED BY <3>1
  <2>5. ASSUME NEW T \in SUBSET (1 .. i), T # {}, i \in T
        PROVE  h[T] = g[Max(T)][h[T \ {Max(T)}]]
    <3>1. Max(T) = i
      <4>1. T \subseteq 1 .. i /\ i \in Nat /\ \A k \in T : k <= i
        OBVIOUS
      <4>. QED BY <4>1, <2>5, LargestOf
    <3>2. h[T \ {i}] = f[T \ {i}]
      BY <2>2
    <3>. QED BY <3>1, <3>2, <2>5
  <2>6. ASSUME NEW T \in SUBSET (1 .. i), T # {}, i \notin T
        PROVE  h[T] = g[Max(T)][h[T \ {Max(T)}]]
    <3>1. T \in SUBSET (1 .. i - 1) /\ Max(T) \in T
      <4>1. T \subseteq 1 .. i /\ i \in Nat
        OBVIOUS
      <4>. QED BY <4>1, <2>6, <2>3, Largest
    <3>2. h[T] = f[T] /\ h[T \ {Max(T)}] = f[T \ {Max(T)}]
      BY <2>6
    <3>3. f[T] = g[Max(T)][f[T \ {Max(T)}]]
      BY <2>1, <2>6, <3>1
    <3>. QED BY <3>2, <3>3
  <2>7. h[{}] = a
    BY <2>1
  <2>8. Is(i, h)
    BY <2>5, <2>6, <2>7
  <2>9. \E it \in [SUBSET (1 .. i) -> A] : Is(i, it)
    <3>. HIDE DEF Is, h
    <3>. QED BY <2>4, <2>8
  <2>10. i \in 0 .. n
    OBVIOUS
  <2>. HIDE DEF Is
  <2>. QED BY <2>9, <2>10
<1>3. 0 .. n \subseteq S
  <2>. HIDE DEF S
  <2>. QED BY <1>1, <1>2, UpTo
<1>4. n \in S
  <2>1. n \in 0 .. n
    OBVIOUS
  <2>. HIDE DEF S
  <2>. QED BY <1>3, <2>1
<1>. QED BY <1>4 DEF IsFold

\* The prefixes of a fold, from what its function satisfies.
LEMMA PrefixSets ==
  ASSUME NEW n \in Nat, NEW i \in 1 .. n
  PROVE  /\ 1 .. i # {} /\ 1 .. i \in SUBSET (1 .. n)
         /\ Max(1 .. i) = i /\ (1 .. i) \ {i} = 1 .. i - 1
<1>1. 1 .. i # {} /\ 1 .. i \in SUBSET (1 .. n) /\ (1 .. i) \ {i} = 1 .. i - 1
  OBVIOUS
<1>2. ASSUME NEW T, T = 1 .. i
      PROVE  Max(T) = i
  <2>1. i \in T /\ T \subseteq 1 .. i /\ i \in Nat /\ \A k \in T : k <= i
    BY <1>2
  <2>. QED BY <2>1, LargestOf
<1>3. Max(1 .. i) = i
  BY <1>2
<1>. QED BY <1>1, <1>3

-----------------------------------------------------------------------------
(* The loop of safePathToken.                                              *)

\* Trim returns nothing, or what is from the first to the last character that
\* is not in C.
LEMMA Trimmed ==
  ASSUME NEW A, NEW s \in Seq(A), NEW C
  PROVE  \/ Trim(s, C) = <<>> /\ \A i \in 1 .. Len(s) : s[i] \in C
         \/ \E m, n \in 1 .. Len(s) :
              /\ m <= n /\ s[m] \notin C /\ s[n] \notin C
              /\ \A k \in 1 .. Len(s) : s[k] \notin C => m <= k /\ k <= n
              /\ Trim(s, C) = SubSeq(s, m, n)
<1>. DEFINE K == {i \in DOMAIN s : s[i] \notin C}
            m == CHOOSE i \in K : \A k \in K : i <= k
            n == CHOOSE i \in K : \A k \in K : k <= i
<1>1. DOMAIN s = 1 .. Len(s) /\ Len(s) \in Nat
  OBVIOUS
<1>2. CASE K = {}
  BY <1>1, <1>2 DEF Trim
<1>3. CASE K # {}
  <2>1. K \subseteq 1 .. Len(s) /\ K \subseteq Nat
    BY <1>1
  <2>2. m \in K /\ \A k \in K : m <= k
    <3>. HIDE DEF K
    <3>. QED BY <1>3, <2>1, Least
  <2>3. \E i \in K : \A k \in K : k <= i
    <3>. HIDE DEF K
    <3>. QED BY <1>1, <1>3, <2>1, Largest
  <2>4. n \in K /\ \A k \in K : k <= n
    <3>. HIDE DEF K
    <3>. QED BY <2>3
  <2>5. Trim(s, C) = SubSeq(s, m, n)
    BY <1>3 DEF Trim
  <2>. HIDE DEF m, n
  <2>6. /\ m \in 1 .. Len(s) /\ n \in 1 .. Len(s) /\ m <= n
        /\ s[m] \notin C /\ s[n] \notin C
        /\ \A k \in 1 .. Len(s) : s[k] \notin C => m <= k /\ k <= n
    BY <1>1, <2>2, <2>4
  <2>. QED BY <2>5, <2>6
<1>. QED BY <1>2, <1>3

\* Trim leaves characters of the text.
LEMMA TrimType ==
  ASSUME NEW A, NEW s \in Seq(A), NEW C
  PROVE  Trim(s, C) \in Seq(A)
<1>1. CASE Trim(s, C) = <<>>
  BY <1>1
<1>2. CASE \E m, n \in 1 .. Len(s) : Trim(s, C) = SubSeq(s, m, n)
  <2>1. PICK m \in 1 .. Len(s), n \in 1 .. Len(s) : Trim(s, C) = SubSeq(s, m, n)
    BY <1>2
  <2>2. \A i \in m .. n : s[i] \in A
    OBVIOUS
  <2>3. m \in Int /\ n \in Int
    OBVIOUS
  <2>4. SubSeq(s, m, n) \in Seq(A)
    BY <2>2, <2>3, SubSeqProperties
  <2>. QED BY <2>1, <2>4
<1>. QED BY <1>1, <1>2, Trimmed

\* The characters of a token, and of a release key.
TokenChars == Kept \cup {"-"}
KeyChars == TokenChars \cup {"r", "e", "f", "job_", "10:00:00", "10:00:01"}

\* The loop of safePathToken writes letters, digits and hyphens only.
LEMMA PutType ==
  ASSUME NEW b \in Seq(TokenChars), NEW c
  PROVE  Put(b, c) \in Seq(TokenChars)
BY DEF Put, TokenChars

\* What safePathToken has written after each character of a text: the fold of
\* Written, one step of the loop at a time.
LEMMA WrittenSteps ==
  ASSUME NEW v \in Seq(Chars)
  PROVE  \E w \in [0 .. Len(v) -> Seq(TokenChars)] :
           /\ w[0] = <<>> /\ Written(v) = w[Len(v)]
           /\ \A i \in 1 .. Len(v) : w[i] = Put(w[i - 1], Lower(v[i]))
<1>. DEFINE n == Len(v)
            A == Seq(TokenChars)
            u == [i \in DOMAIN v |-> Lower(v[i])]
            g == [i \in 1 .. n |-> [b \in A |-> Put(b, u[i])]]
            Is(it) == it = [T \in SUBSET DOMAIN u |->
                IF T = {} THEN <<>> ELSE Put(it[T \ {Max(T)}], u[Max(T)])]
            it == CHOOSE f : Is(f)
<1>1. n \in Nat /\ DOMAIN v = 1 .. n /\ DOMAIN u = 1 .. n
  OBVIOUS
<1>2. Written(v) = it[DOMAIN u]
  BY DEF Written, FoldLeft, MapThenFoldSet
<1>3. Is(it)
  <2>1. g \in [1 .. n -> [A -> A]]
    BY PutType
  <2>2. <<>> \in A
    OBVIOUS
  <2>3. PICK f \in [SUBSET (1 .. n) -> A] : \A T \in SUBSET (1 .. n) :
           f[T] = IF T = {} THEN <<>> ELSE g[Max(T)][f[T \ {Max(T)}]]
    <3>1. \E f \in [SUBSET (1 .. n) -> A] : IsFold(f, <<>>, n, g)
      <4>. HIDE DEF g, A, n
      <4>. QED BY <1>1, <2>1, <2>2, FoldExists
    <3>. HIDE DEF g, A, n
    <3>. QED BY <3>1 DEF IsFold
  <2>4. ASSUME NEW T \in SUBSET (1 .. n), T # {}
        PROVE  g[Max(T)][f[T \ {Max(T)}]] = Put(f[T \ {Max(T)}], u[Max(T)])
    <3>1. Max(T) \in 1 .. n
      BY <1>1, <2>4, Largest
    <3>2. f[T \ {Max(T)}] \in A
      <4>1. T \ {Max(T)} \in SUBSET (1 .. n)
        OBVIOUS
      <4>. HIDE DEF A, n
      <4>. QED BY <4>1, <2>3
    <3>. QED BY <3>1, <3>2
  <2>5. \A T \in SUBSET (1 .. n) :
          f[T] = IF T = {} THEN <<>> ELSE Put(f[T \ {Max(T)}], u[Max(T)])
    <3>. HIDE DEF A, n, u, g
    <3>. QED BY <2>3, <2>4
  <2>6. Is(f)
    <3>. HIDE DEF A, n, u, g
    <3>. QED BY <1>1, <2>3, <2>5
  <2>. HIDE DEF Is
  <2>. QED BY <2>6
<1>. DEFINE w == [i \in 0 .. n |-> it[1 .. i]]
<1>4. w[0] = <<>>
  <2>1. 1 .. 0 = {} /\ 0 \in 0 .. n
    BY <1>1
  <2>2. it[{}] = <<>>
    <3>. HIDE DEF it, u
    <3>. QED BY <1>3
  <2>. HIDE DEF it
  <2>. QED BY <2>1, <2>2
<1>5. ASSUME NEW i \in 1 .. n
      PROVE  w[i] = Put(w[i - 1], Lower(v[i]))
  <2>1. i \in 0 .. n /\ i - 1 \in 0 .. n /\ u[i] = Lower(v[i])
    BY <1>1
  <2>2. /\ 1 .. i # {} /\ 1 .. i \in SUBSET (1 .. n)
        /\ Max(1 .. i) = i /\ (1 .. i) \ {i} = 1 .. i - 1
    BY <1>1, PrefixSets
  <2>3. it[1 .. i] = Put(it[1 .. i - 1], u[i])
    <3>1. ASSUME NEW T \in SUBSET (1 .. n), T # {}
          PROVE  it[T] = Put(it[T \ {Max(T)}], u[Max(T)])
      <4>. HIDE DEF it, u, n
      <4>. QED BY <1>1, <1>3, <3>1
    <3>. HIDE DEF it, u, n
    <3>. QED BY <3>1, <2>2
  <2>. HIDE DEF it, u
  <2>. QED BY <2>1, <2>3
<1>. DEFINE S == {i \in 0 .. n : w[i] \in A}
<1>6. 0 .. n \subseteq S
  <2>1. 0 \in S
    <3>1. <<>> \in A /\ 0 \in 0 .. n
      BY <1>1
    <3>. HIDE DEF w, A
    <3>. QED BY <1>4, <3>1
  <2>2. ASSUME NEW i \in 1 .. n, i - 1 \in S
        PROVE  i \in S
    <3>. HIDE DEF w
    <3>. QED BY <1>5, <2>2, PutType
  <2>. HIDE DEF S
  <2>. QED BY <1>1, <2>1, <2>2, UpTo
<1>7. w \in [0 .. n -> A]
  <2>. HIDE DEF A, it
  <2>. QED BY <1>6
<1>8. Written(v) = w[n]
  <2>. HIDE DEF it
  <2>. QED BY <1>1, <1>2
<1>. HIDE DEF w
<1>. QED BY <1>4, <1>5, <1>7, <1>8

\* So does the whole loop.
LEMMA WrittenType ==
  ASSUME NEW v \in Seq(Chars)
  PROVE  Written(v) \in Seq(TokenChars)
<1>1. Len(v) \in 0 .. Len(v)
  OBVIOUS
<1>. QED BY <1>1, WrittenSteps

\* A token consists of characters of a release key.
LEMMA TokenType ==
  ASSUME NEW v \in Seq(Chars)
  PROVE  safePathToken(v) \in Seq(KeyChars)
<1>1. Trim(v, {" "}) \in Seq(Chars)
  BY TrimType
<1>2. Written(Trim(v, {" "})) \in Seq(TokenChars)
  BY <1>1, WrittenType
<1>3. Trim(Written(Trim(v, {" "})), {"-"}) \in Seq(TokenChars)
  BY <1>2, TrimType
<1>4. TokenChars \subseteq KeyChars
  BY DEF KeyChars
<1>5. ASSUME NEW out \in Seq(TokenChars)
      PROVE  Cut(out) \in Seq(KeyChars)
  <2>1. out \in Seq(KeyChars)
    BY <1>4, SeqMonotonic
  <2>2. TokenLen \in Nat \ {0}
    BY NamesAssumption
  <2>3. Len(out) > TokenLen => SubSeq(out, 1, TokenLen) \in Seq(KeyChars)
    <3>1. ASSUME Len(out) > TokenLen
          PROVE  \A i \in 1 .. TokenLen : out[i] \in KeyChars
      BY <2>1, <2>2, <3>1
    <3>. QED BY <2>2, <3>1, SubSeqProperties
  <2>4. <<"r", "e", "f">> \in Seq(KeyChars)
    BY DEF KeyChars
  <2>. QED BY <2>1, <2>3, <2>4 DEF Cut
<1>. QED BY <1>3, <1>5 DEF safePathToken

-----------------------------------------------------------------------------
(* Release keys.                                                           *)

\* What is kept of an identifier is its end.
LEMMA ShortIDEnd ==
  ASSUME NEW x \in Ids
  PROVE  /\ x \in Seq(KeyChars) /\ Len(x) = ShortLen + 2
         /\ shortID(x) \in Seq(KeyChars) /\ Len(shortID(x)) = ShortLen
         /\ \A i \in 0 .. ShortLen - 1 : shortID(x)[ShortLen - i] = x[Len(x) - i]
<1>1. ShortLen \in Nat \ {0}
  BY NamesAssumption
<1>2. PICK s \in [1 .. ShortLen + 1 -> {"a", "1"}] : x = <<"job_">> \o s
  BY DEF Ids
<1>3. s \in Seq(KeyChars) /\ Len(s) = ShortLen + 1
  <2>1. s \in [1 .. ShortLen + 1 -> KeyChars]
    BY DEF KeyChars, TokenChars, Kept
  <2>. QED BY <1>1, <2>1
<1>4. <<"job_">> \in Seq(KeyChars) /\ Len(<<"job_">>) = 1
  BY DEF KeyChars
<1>5. x \in Seq(KeyChars) /\ Len(x) = ShortLen + 2
  BY <1>1, <1>2, <1>3, <1>4
<1>6. shortID(x) = SubSeq(x, 3, ShortLen + 2)
  BY <1>1, <1>5 DEF shortID
<1>7. /\ SubSeq(x, 3, ShortLen + 2) \in Seq(KeyChars)
      /\ Len(SubSeq(x, 3, ShortLen + 2)) = ShortLen
      /\ \A i \in 1 .. ShortLen : SubSeq(x, 3, ShortLen + 2)[i] = x[i + 2]
  BY <1>1, <1>5
<1>8. ASSUME NEW i \in 0 .. ShortLen - 1
      PROVE  shortID(x)[ShortLen - i] = x[Len(x) - i]
  <2>1. ShortLen - i \in 1 .. ShortLen /\ ShortLen - i + 2 = Len(x) - i
    BY <1>1, <1>5
  <2>. QED BY <2>1, <1>6, <1>7
<1>. QED BY <1>5, <1>6, <1>7, <1>8

\* A release key is the second, the token of the ref and the end of the
\* identifier, at these places.
LEMMA KeyParts ==
  ASSUME NEW second \in {"10:00:00", "10:00:01"}, NEW ref \in Seq(Chars), NEW x \in Ids
  PROVE  LET key == ReleaseKey(second, ref, x) IN
           /\ Len(key) \in Nat /\ Len(key) > ShortLen /\ key[1] = second
           /\ \A i \in 0 .. ShortLen - 1 : key[Len(key) - i] = x[Len(x) - i]
<1>. DEFINE t == safePathToken(ref)
            key == ReleaseKey(second, ref, x)
            front == <<second, "-">> \o t \o <<"-">>
<1>1. ShortLen \in Nat \ {0}
  BY NamesAssumption
<1>2. t \in Seq(KeyChars)
  BY TokenType
<1>3. /\ x \in Seq(KeyChars) /\ Len(x) = ShortLen + 2
      /\ shortID(x) \in Seq(KeyChars) /\ Len(shortID(x)) = ShortLen
      /\ \A i \in 0 .. ShortLen - 1 : shortID(x)[ShortLen - i] = x[Len(x) - i]
  BY ShortIDEnd
<1>4. <<second, "-">> \in Seq(KeyChars) /\ <<"-">> \in Seq(KeyChars)
  BY DEF KeyChars, TokenChars
<1>. HIDE DEF t
<1>5. front \in Seq(KeyChars) /\ Len(front) = Len(t) + 3 /\ front[1] = second
  BY <1>2, <1>4
<1>6. key = front \o shortID(x)
  BY DEF ReleaseKey, t
<1>. HIDE DEF front, key
<1>7. /\ Len(key) = Len(front) + ShortLen /\ key[1] = second
      /\ \A i \in 1 .. ShortLen : key[Len(front) + i] = shortID(x)[i]
  <2>1. /\ Len(key) = Len(front) + ShortLen
        /\ \A i \in 1 .. Len(front) + ShortLen : key[i] =
             IF i <= Len(front) THEN front[i] ELSE shortID(x)[i - Len(front)]
    BY <1>3, <1>5, <1>6, ConcatProperties
  <2>2. Len(t) \in Nat
    BY <1>2
  <2>3. key[1] = second
    BY <1>1, <1>5, <2>1, <2>2
  <2>4. ASSUME NEW i \in 1 .. ShortLen
        PROVE  key[Len(front) + i] = shortID(x)[i]
    <3>1. /\ Len(front) + i \in 1 .. Len(front) + ShortLen
          /\ ~(Len(front) + i <= Len(front)) /\ Len(front) + i - Len(front) = i
      BY <1>1, <1>5, <2>2
    <3>. QED BY <2>1, <3>1
  <2>. QED BY <2>1, <2>3, <2>4
<1>8. ASSUME NEW i \in 0 .. ShortLen - 1
      PROVE  key[Len(key) - i] = x[Len(x) - i]
  <2>1. ShortLen - i \in 1 .. ShortLen /\ Len(front) + (ShortLen - i) = Len(key) - i
    BY <1>1, <1>2, <1>5, <1>7
  <2>. QED BY <2>1, <1>3, <1>7
<1>. QED BY <1>1, <1>2, <1>5, <1>7, <1>8 DEF key

\* Keys that are equal have their first element and their last ShortLen
\* characters in common, whatever is between them.
LEMMA KeysDifferHolds ==
  ASSUME left \in Seq(Chars), right \in Seq(Chars)
  PROVE  KeysDiffer
<1>. SUFFICES ASSUME NEW x \in Ids, NEW y \in Ids,
                     NEW s \in {"10:00:00", "10:00:01"}, NEW t \in {"10:00:00", "10:00:01"},
                     ReleaseKey(s, left, x) = ReleaseKey(t, right, y)
              PROVE  s = t /\ \A i \in 0 .. ShortLen - 1 : x[Len(x) - i] = y[Len(y) - i]
  BY DEF KeysDiffer
<1>1. LET key == ReleaseKey(s, left, x) IN
        /\ key[1] = s
        /\ \A i \in 0 .. ShortLen - 1 : key[Len(key) - i] = x[Len(x) - i]
  BY KeyParts
<1>2. LET key == ReleaseKey(t, right, y) IN
        /\ key[1] = t
        /\ \A i \in 0 .. ShortLen - 1 : key[Len(key) - i] = y[Len(y) - i]
  BY KeyParts
<1>. QED BY <1>1, <1>2

-----------------------------------------------------------------------------
(* Texts of times.                                                         *)

\* The text of a time has the digits up to the last one that is not zero, if
\* there is one, between the full stop and the blank.
LEMMA TextForm ==
  ASSUME NEW t \in Times
  PROVE  \E n \in 0 .. Fraction :
           /\ \A k \in n + 1 .. Fraction : t[k] = 2
           /\ Text(t) \in Seq(Int)
           /\ n = 0 => Text(t) = <<0>>
           /\ n > 0 =>
                /\ Len(Text(t)) = n + 2
                /\ Text(t)[1] = 1 /\ Text(t)[n + 2] = 0
                /\ \A k \in 1 .. n : Text(t)[k + 1] = t[k]
<1>. DEFINE s == <<-1>> \o t
            f == Trim(s, {2})
<1>1. Fraction \in Nat \ {0} /\ Digits \subseteq Int /\ t \in [1 .. Fraction -> Digits]
  BY NamesAssumption DEF Digits, Times
<1>2. t \in Seq(Int) /\ Len(t) = Fraction
  <2>1. t \in [1 .. Fraction -> Int]
    BY <1>1
  <2>. QED BY <1>1, <2>1
<1>3. /\ s \in Seq(Int) /\ Len(s) = Fraction + 1 /\ s[1] = -1
      /\ \A k \in 1 .. Fraction : s[k + 1] = t[k]
  <2>1. <<-1>> \in Seq(Int) /\ Len(<<-1>>) = 1 /\ <<-1>>[1] = -1
    OBVIOUS
  <2>2. /\ s \in Seq(Int) /\ Len(s) = Fraction + 1
        /\ \A k \in 1 .. Fraction + 1 : s[k] = IF k <= 1 THEN <<-1>>[k] ELSE t[k - 1]
    <3>. HIDE DEF s
    <3>1. s = <<-1>> \o t
      BY DEF s
    <3>. QED BY <1>2, <2>1, <3>1, ConcatProperties
  <2>. HIDE DEF s
  <2>3. s[1] = -1
    BY <1>1, <2>1, <2>2
  <2>4. ASSUME NEW k \in 1 .. Fraction
        PROVE  s[k + 1] = t[k]
    <3>1. k + 1 \in 1 .. Fraction + 1 /\ ~(k + 1 <= 1) /\ k + 1 - 1 = k
      BY <1>1
    <3>. QED BY <2>2, <3>1
  <2>. QED BY <2>2, <2>3, <2>4
<1>4. Text(t) = (IF Len(f) = 1 THEN <<>> ELSE <<1>> \o Tail(f)) \o <<0>>
  BY DEF Text
<1>. HIDE DEF s
<1>5. 1 \in 1 .. Len(s) /\ s[1] \notin {2}
  BY <1>1, <1>3
<1>6. PICK m \in 1 .. Len(s), n \in 1 .. Len(s) :
        /\ m <= n /\ s[m] \notin {2} /\ s[n] \notin {2}
        /\ \A k \in 1 .. Len(s) : s[k] \notin {2} => m <= k /\ k <= n
        /\ f = SubSeq(s, m, n)
  <2>. HIDE DEF f
  <2>1. \/ f = <<>> /\ \A i \in 1 .. Len(s) : s[i] \in {2}
        \/ \E m, n \in 1 .. Len(s) :
              /\ m <= n /\ s[m] \notin {2} /\ s[n] \notin {2}
              /\ \A k \in 1 .. Len(s) : s[k] \notin {2} => m <= k /\ k <= n
              /\ f = SubSeq(s, m, n)
    BY <1>3, Trimmed DEF f
  <2>. QED BY <1>5, <2>1
<1>7. m = 1 /\ n \in 1 .. Fraction + 1 /\ n - 1 \in 0 .. Fraction
  BY <1>1, <1>3, <1>5, <1>6
<1>8. \A i \in 1 .. n : s[i] \in Int
  BY <1>1, <1>3, <1>7
<1>9. f \in Seq(Int) /\ Len(f) = n /\ \A i \in 1 .. n : f[i] = s[i]
  <2>. HIDE DEF f
  <2>1. f = SubSeq(s, 1, n) /\ 1 \in Int /\ n \in Int /\ 1 <= n
    BY <1>6, <1>7
  <2>2. /\ f \in Seq(Int) /\ Len(f) = n - 1 + 1
        /\ \A i \in 1 .. n - 1 + 1 : f[i] = s[1 + i - 1]
    BY <1>8, <2>1, SubSeqProperties
  <2>. QED BY <1>1, <1>7, <2>2
<1>10. ASSUME NEW k \in n .. Fraction
       PROVE  t[k] = 2
  <2>1. k \in 1 .. Fraction /\ k + 1 \in 1 .. Len(s) /\ ~(k + 1 <= n)
    BY <1>1, <1>3, <1>7
  <2>. QED BY <1>3, <1>6, <2>1
<1>. HIDE DEF f
<1>11. CASE n = 1
  BY <1>4, <1>7, <1>9, <1>10, <1>11
<1>12. CASE n # 1
  <2>1. Text(t) = <<1>> \o Tail(f) \o <<0>>
    BY <1>4, <1>9, <1>12
  <2>2. f # <<>> /\ n - 1 \in 1 .. Fraction
    BY <1>1, <1>7, <1>9, <1>12
  <2>3. /\ Tail(f) \in Seq(Int) /\ Len(Tail(f)) = n - 1
        /\ \A i \in 1 .. n - 1 : Tail(f)[i] = f[i + 1]
    BY <1>9, <2>2, HeadTailProperties
  <2>4. ASSUME NEW i \in 1 .. n - 1
        PROVE  Tail(f)[i] = t[i]
    <3>1. i \in 1 .. Fraction /\ i + 1 \in 1 .. n
      BY <1>1, <1>7
    <3>. QED BY <1>3, <1>9, <2>3, <3>1
  <2>. DEFINE u == Tail(f)
  <2>5. u \in Seq(Int) /\ Len(u) = n - 1 /\ \A i \in 1 .. n - 1 : u[i] = t[i]
    BY <2>3, <2>4
  <2>6. Text(t) = <<1>> \o u \o <<0>>
    BY <2>1
  <2>. HIDE DEF u
  <2>7. /\ Text(t) \in Seq(Int) /\ Len(Text(t)) = n + 1
        /\ Text(t)[1] = 1 /\ Text(t)[n + 1] = 0
        /\ \A i \in 1 .. n - 1 : Text(t)[i + 1] = t[i]
    BY <1>1, <1>7, <2>2, <2>5, <2>6
  <2>. QED BY <1>7, <1>10, <2>2, <2>7
<1>. QED BY <1>11, <1>12

\* What comes first among two texts at the first place where they differ.
Smaller(x, y) == \E i \in DOMAIN x \cap DOMAIN y :
  x[i] < y[i] /\ \A k \in 1 .. i - 1 : x[k] = y[k]

\* The first digit that differs is before the end of the later time's text,
\* and the earlier one has a smaller digit or its closing blank there.
LEMMA EarlierIsSmaller ==
  ASSUME NEW x \in Times, NEW y \in Times, Earlier(x, y)
  PROVE  Smaller(Text(x), Text(y))
<1>1. /\ Fraction \in Nat \ {0}
      /\ x \in [1 .. Fraction -> Digits] /\ y \in [1 .. Fraction -> Digits]
      /\ \A d \in Digits : d \in Int /\ d >= 2
  BY NamesAssumption DEF Digits, Times
<1>2. PICK i \in 1 .. Fraction : x[i] < y[i] /\ \A k \in 1 .. i - 1 : x[k] = y[k]
  BY <1>1 DEF Earlier
<1>3. PICK m \in 0 .. Fraction :
         /\ \A k \in m + 1 .. Fraction : x[k] = 2
         /\ Text(x) \in Seq(Int)
         /\ m = 0 => Text(x) = <<0>>
         /\ m > 0 =>
              /\ Len(Text(x)) = m + 2
              /\ Text(x)[1] = 1 /\ Text(x)[m + 2] = 0
              /\ \A k \in 1 .. m : Text(x)[k + 1] = x[k]
  BY TextForm
<1>4. PICK n \in 0 .. Fraction :
         /\ \A k \in n + 1 .. Fraction : y[k] = 2
         /\ Text(y) \in Seq(Int)
         /\ n = 0 => Text(y) = <<0>>
         /\ n > 0 =>
              /\ Len(Text(y)) = n + 2
              /\ Text(y)[1] = 1 /\ Text(y)[n + 2] = 0
              /\ \A k \in 1 .. n : Text(y)[k + 1] = y[k]
  BY TextForm
<1>5. i <= n
  <2>1. y[i] # 2
    BY <1>1, <1>2
  <2>. QED BY <1>1, <1>4, <2>1
<1>6. CASE m = 0
  <2>1. DOMAIN Text(x) = 1 .. 1 /\ Text(x)[1] = 0
    BY <1>3, <1>6
  <2>2. 1 \in DOMAIN Text(y) /\ Text(y)[1] = 1
    BY <1>1, <1>4, <1>5
  <2>. QED BY <2>1, <2>2 DEF Smaller
<1>7. CASE m >= i
  <2>0. m > 0 /\ n > 0 /\ i \in 1 .. m /\ i \in 1 .. n
    BY <1>1, <1>5, <1>7
  <2>1. i + 1 \in DOMAIN Text(x) \cap DOMAIN Text(y)
    BY <1>3, <1>4, <2>0
  <2>2. Text(x)[i + 1] = x[i] /\ Text(y)[i + 1] = y[i]
    BY <1>3, <1>4, <2>0
  <2>3. ASSUME NEW k \in 1 .. i
        PROVE  Text(x)[k] = Text(y)[k]
    <3>1. CASE k = 1
      BY <1>3, <1>4, <2>0, <3>1
    <3>2. CASE k # 1
      <4>1. k - 1 \in 1 .. m /\ k - 1 \in 1 .. n /\ k - 1 \in 1 .. i - 1 /\ k - 1 + 1 = k
        BY <2>0, <3>2
      <4>2. Text(x)[k - 1 + 1] = x[k - 1] /\ Text(y)[k - 1 + 1] = y[k - 1]
        BY <1>3, <1>4, <2>0, <4>1
      <4>. QED BY <1>2, <4>1, <4>2
    <3>. QED BY <3>1, <3>2
  <2>4. i + 1 - 1 = i
    BY <1>1
  <2>. QED BY <1>2, <2>1, <2>2, <2>3, <2>4 DEF Smaller
<1>8. CASE m > 0 /\ m < i
  <2>0. m \in Nat /\ n \in Nat /\ i \in Nat /\ m > 0 /\ m < i /\ m < n /\ n > 0
    BY <1>1, <1>5, <1>8
  <2>1. m + 2 \in DOMAIN Text(x) \cap DOMAIN Text(y)
    BY <1>1, <1>3, <1>4, <1>5, <1>8
  <2>2. Text(x)[m + 2] = 0 /\ Text(y)[m + 2] = y[m + 1] /\ y[m + 1] >= 2 /\ y[m + 1] \in Int
    <3>1. m + 1 \in 1 .. n /\ m + 1 \in 1 .. Fraction /\ m + 1 + 1 = m + 2
      BY <1>1, <1>3, <1>4, <1>5, <1>8
    <3>2. Text(y)[m + 1 + 1] = y[m + 1]
      BY <1>4, <3>1
    <3>. QED BY <1>1, <1>3, <1>8, <3>1, <3>2
  <2>3. ASSUME NEW k \in 1 .. m + 1
        PROVE  Text(x)[k] = Text(y)[k]
    <3>1. CASE k = 1
      BY <1>1, <1>3, <1>4, <1>5, <1>8, <3>1
    <3>2. CASE k # 1
      <4>1. /\ n > 0 /\ k - 1 \in 1 .. m /\ k - 1 \in 1 .. n /\ k - 1 \in 1 .. i - 1
            /\ k - 1 + 1 = k
        BY <2>0, <3>2
      <4>2. Text(x)[k - 1 + 1] = x[k - 1] /\ Text(y)[k - 1 + 1] = y[k - 1]
        BY <1>3, <1>4, <1>8, <4>1
      <4>. QED BY <1>2, <4>1, <4>2
    <3>. QED BY <3>1, <3>2
  <2>4. m + 2 - 1 = m + 1 /\ Text(x)[m + 2] < Text(y)[m + 2]
    BY <1>1, <2>2
  <2>. QED BY <2>1, <2>3, <2>4 DEF Smaller
<1>9. m = 0 \/ m >= i \/ (m > 0 /\ m < i)
  BY <1>1, <1>2, <1>3
<1>. QED BY <1>6, <1>7, <1>8, <1>9

\* The first digit where two times differ tells which one is earlier.
LEMMA OneIsEarlier ==
  ASSUME NEW x \in Times, NEW y \in Times
  PROVE  Earlier(x, y) \/ Earlier(y, x) \/ x = y
<1>. DEFINE D == {i \in 1 .. Fraction : x[i] # y[i]}
<1>1. /\ Fraction \in Nat \ {0}
      /\ x \in [1 .. Fraction -> Digits] /\ y \in [1 .. Fraction -> Digits]
      /\ \A d \in Digits : d \in Int
  BY NamesAssumption DEF Digits, Times
<1>2. CASE D = {}
  BY <1>1, <1>2
<1>3. CASE D # {}
  <2>1. PICK i \in D : \A k \in D : i <= k
    <3>1. D \subseteq Nat
      OBVIOUS
    <3>. HIDE DEF D
    <3>. QED BY <1>3, <3>1, Least
  <2>2. \A k \in 1 .. i - 1 : x[k] = y[k]
    BY <1>1, <2>1
  <2>3. i \in DOMAIN x /\ i \in DOMAIN y /\ (x[i] < y[i] \/ y[i] < x[i])
    BY <1>1
  <2>. QED BY <2>2, <2>3 DEF Earlier
<1>. QED BY <1>2, <1>3

\* Of two texts that differ at a place, one comes first.
LEMMA SmallerIsNotBefore ==
  ASSUME NEW x \in Seq(Int), NEW y \in Seq(Int), Smaller(y, x)
  PROVE  ~Before(x, y)
<1>1. PICK j \in DOMAIN y \cap DOMAIN x :
        y[j] < x[j] /\ \A k \in 1 .. j - 1 : y[k] = x[k]
  BY DEF Smaller
<1>2. j \in 1 .. Len(x) /\ j \in 1 .. Len(y) /\ x[j] \in Int /\ y[j] \in Int
  BY <1>1
<1>3. ~IsStrictPrefix(x, y)
  <2>1. SUFFICES ASSUME IsStrictPrefix(x, y) PROVE FALSE
    OBVIOUS
  <2>2. Len(x) <= Len(y) /\ SubSeq(x, 1, Len(x)) = SubSeq(y, 1, Len(x))
    BY <2>1 DEF IsStrictPrefix, IsPrefix
  <2>3. SubSeq(x, 1, Len(x))[j] = x[j] /\ SubSeq(y, 1, Len(x))[j] = y[j]
    BY <1>2, <2>2
  <2>. QED BY <1>1, <1>2, <2>2, <2>3
<1>4. ASSUME NEW i \in DOMAIN x \cap DOMAIN y,
             x[i] < y[i], \A k \in 1 .. i - 1 : x[k] = y[k]
      PROVE  FALSE
  <2>1. i \in 1 .. Len(x) /\ i \in 1 .. Len(y) /\ x[i] \in Int /\ y[i] \in Int
    OBVIOUS
  <2>2. CASE i < j
    <3>1. i \in 1 .. j - 1
      BY <1>2, <2>1, <2>2
    <3>2. x[i] = y[i]
      BY <1>1, <3>1
    <3>. QED BY <1>4, <2>1, <3>2
  <2>3. CASE j < i
    <3>1. j \in 1 .. i - 1
      BY <1>2, <2>1, <2>3
    <3>2. x[j] = y[j]
      BY <1>4, <3>1
    <3>. QED BY <1>1, <1>2, <3>2
  <2>4. CASE i = j
    BY <1>1, <1>2, <1>4, <2>4
  <2>. QED BY <1>2, <2>1, <2>2, <2>3, <2>4
<1>. QED BY <1>3, <1>4 DEF Before

\* Of two different times one is earlier, and its text comes first.
LEMMA TextInOrderHolds ==
  ASSUME at \in Times
  PROVE  TextInOrder
<1>. SUFFICES ASSUME NEW t \in Times
              PROVE  Before(Text(at), Text(t)) <=> Earlier(at, t)
  BY DEF TextInOrder
<1>1. Text(at) \in Seq(Int) /\ Text(t) \in Seq(Int)
  BY TextForm
<1>2. Earlier(at, t) => Before(Text(at), Text(t))
  BY EarlierIsSmaller DEF Smaller, Before
<1>3. Earlier(t, at) => ~Before(Text(at), Text(t))
  BY <1>1, EarlierIsSmaller, SmallerIsNotBefore
<1>4. at = t => ~Before(Text(at), Text(t))
  <2>. SUFFICES ASSUME NEW x \in Seq(Int) PROVE ~Before(x, x)
    BY <1>1
  <2>1. \A i \in DOMAIN x : ~(x[i] < x[i])
    OBVIOUS
  <2>. QED BY <2>1 DEF Before, IsStrictPrefix
<1>. QED BY <1>2, <1>3, <1>4, OneIsEarlier

-----------------------------------------------------------------------------
(* Files.                                                                  *)

\* Lines of a file the installer wrote and an admin changed, and what
\* LoadConfig makes of them.
Texts == Words \cup {Bad, "ten", "zero", "/etc/c-plane/agent.token"}
FileLine ==
  {Noise} \cup {Section(s) : s \in Sections} \cup
  {Assign(k, v) : k \in Keys, v \in [text : Texts, quoted : BOOLEAN]}
Config == [Keys -> Texts \cup {"", 10, 15}]
State == [section : Sections \cup {""}, config : Config]

Start == [section |-> "", config |-> Default]

\* What the admin may write is a line of a file.
LEMMA LineInFile == Line \subseteq FileLine
<1>1. ASSUME NEW k \in Keys \ {"poll_interval_seconds"}, NEW v \in {Plain(w) : w \in Words}
      PROVE  Assign(k, v) \in FileLine
  <2>1. v \in [text : Texts, quoted : BOOLEAN]
    <3>1. PICK w \in Words : v = [text |-> w, quoted |-> FALSE]
      BY DEF Plain
    <3>. QED BY <3>1 DEF Texts
  <2>. QED BY <2>1 DEF FileLine
<1>2. ASSUME NEW v \in Values
      PROVE  Assign("poll_interval_seconds", v) \in FileLine
  <2>1. DOMAIN Seconds = {"ten", "zero"}
    BY DEF Seconds
  <2>2. \E w \in Texts : v = [text |-> w, quoted |-> FALSE] \/ v = [text |-> w, quoted |-> TRUE]
    BY <2>1 DEF Values, Plain, Quoted, Texts
  <2>3. v \in [text : Texts, quoted : BOOLEAN]
    <3>1. CASE \E w \in Texts : v = [text |-> w, quoted |-> FALSE]
      BY <3>1
    <3>2. CASE \E w \in Texts : v = [text |-> w, quoted |-> TRUE]
      BY <3>2
    <3>. QED BY <2>2, <3>1, <3>2
  <2>4. "poll_interval_seconds" \in Keys
    BY DEF Keys
  <2>. QED BY <2>3, <2>4 DEF FileLine
<1>. QED BY <1>1, <1>2 DEF Line, FileLine

\* A line is one of three kinds.
LEMMA LineKinds ==
  ASSUME NEW line \in FileLine
  PROVE  \/ line.is = "noise"
         \/ line.is = "section" /\ line.name \in Sections
         \/ /\ line.is = "assignment" /\ line.key \in Keys
            /\ line.value \in [text : Texts, quoted : BOOLEAN]
BY DEF FileLine, Noise, Section, Assign

\* A section and a configuration are a state of ReadLine.
LEMMA StateOf ==
  ASSUME NEW x \in Sections \cup {""}, NEW c \in Config
  PROVE  [section |-> x, config |-> c] \in State
BY DEF State

\* LoadConfig starts from one.
LEMMA StartType == Start \in State
<1>1. DOMAIN Default = Keys
  BY DEF Default, Keys
<1>2. \A k \in Keys : Default[k] \in Texts \cup {"", 10, 15}
  <2>1. /\ Default["host_id"] = "" /\ Default["api_url"] = ""
        /\ Default["poll_interval_seconds"] = 15
        /\ Default["token_file"] = "/etc/c-plane/agent.token"
    BY DEF Default
  <2>2. "/etc/c-plane/agent.token" \in Texts
    BY DEF Texts
  <2>. QED BY <2>1, <2>2 DEF Keys
<1>3. Default = [k \in DOMAIN Default |-> Default[k]]
  BY DEF Default
<1>4. Default \in Config
  BY <1>1, <1>2, <1>3 DEF Config
<1>. QED BY <1>4 DEF Start, State

\* The lines that assign k in a section.
Sets(line, section, k) ==
  /\ line.is = "assignment" /\ line.key = k
  /\ Belongs(section, k)
  /\ k = "poll_interval_seconds" => line.value.text = "ten"

ValueIn(line, k) == IF k = "poll_interval_seconds" THEN 10 ELSE line.value.text

\* A line changes the section, or one setting if it sets that one in its
\* section, and nothing else.
LEMMA ReadLineSays ==
  ASSUME NEW s \in State, NEW line \in FileLine
  PROVE  /\ ReadLine(s, line) \in State
         /\ ReadLine(s, line).section = IF line.is = "section" THEN line.name ELSE s.section
         /\ \A k \in Keys : ReadLine(s, line).config[k] =
              IF Sets(line, s.section, k) THEN ValueIn(line, k) ELSE s.config[k]
<1>1. s.section \in Sections \cup {""} /\ s.config \in Config
  BY DEF State
<1>2. s = [section |-> s.section, config |-> s.config]
  BY DEF State
<1>3. CASE line.is = "section"
  <2>1. ReadLine(s, line) = [section |-> line.name, config |-> s.config]
    BY <1>2, <1>3 DEF ReadLine
  <2>2. line.name \in Sections
    BY <1>3, LineKinds
  <2>3. ReadLine(s, line) \in State
    BY <1>1, <2>1, <2>2, StateOf
  <2>4. \A k \in Keys : ~Sets(line, s.section, k)
    BY <1>3 DEF Sets
  <2>. QED BY <1>3, <2>1, <2>3, <2>4
<1>4. CASE line.is = "noise"
  BY <1>1, <1>4 DEF ReadLine, State, Sets
<1>5. CASE line.is = "assignment"
  <2>1. line.key \in Keys /\ line.value \in [text : Texts, quoted : BOOLEAN]
    BY <1>5, LineKinds
  <2>2. CASE ~Belongs(s.section, line.key)
    BY <1>1, <1>5, <2>2 DEF ReadLine, State, Sets
  <2>3. CASE Belongs(s.section, line.key) /\ line.key # "poll_interval_seconds"
    <3>1. ReadLine(s, line) = [section |-> s.section,
                               config |-> [s.config EXCEPT ![line.key] = line.value.text]]
      BY <1>2, <1>5, <2>3 DEF ReadLine, Unquote
    <3>2. line.value.text \in Texts
      BY <2>1
    <3>3. [s.config EXCEPT ![line.key] = line.value.text] \in Config
      BY <1>1, <2>1, <3>2 DEF Config
    <3>4. ReadLine(s, line) \in State
      BY <1>1, <3>1, <3>3, StateOf
    <3>5. ASSUME NEW k \in Keys
          PROVE  ReadLine(s, line).config[k] =
                   IF Sets(line, s.section, k) THEN ValueIn(line, k) ELSE s.config[k]
      <4>1. Sets(line, s.section, k) <=> k = line.key
        BY <1>5, <2>3 DEF Sets
      <4>2. k = line.key => ValueIn(line, k) = line.value.text
        BY <2>3 DEF ValueIn
      <4>3. [s.config EXCEPT ![line.key] = line.value.text][k] =
              IF k = line.key THEN line.value.text ELSE s.config[k]
        BY <1>1 DEF Config
      <4>. QED BY <3>1, <4>1, <4>2, <4>3
    <3>. QED BY <1>5, <3>1, <3>4, <3>5
  <2>4. CASE Belongs(s.section, line.key) /\ line.key = "poll_interval_seconds"
    <3>1. IsInterval(line.value.text) <=> line.value.text = "ten"
      BY DEF IsInterval, Seconds
    <3>2. CASE line.value.text = "ten"
      <4>1. Seconds[line.value.text] = 10
        BY <3>2 DEF Seconds
      <4>2. ReadLine(s, line) = [section |-> s.section,
              config |-> [s.config EXCEPT !["poll_interval_seconds"] = 10]]
        BY <1>2, <1>5, <2>4, <3>1, <3>2, <4>1 DEF ReadLine, Unquote
      <4>3. [s.config EXCEPT !["poll_interval_seconds"] = 10] \in Config
        BY <1>1 DEF Config
      <4>4. ReadLine(s, line) \in State
        BY <1>1, <4>2, <4>3, StateOf
      <4>5. ASSUME NEW k \in Keys
            PROVE  ReadLine(s, line).config[k] =
                     IF Sets(line, s.section, k) THEN ValueIn(line, k) ELSE s.config[k]
        <5>1. Sets(line, s.section, k) <=> k = "poll_interval_seconds"
          BY <1>5, <2>4, <3>2 DEF Sets
        <5>2. k = "poll_interval_seconds" => ValueIn(line, k) = 10
          BY DEF ValueIn
        <5>3. [s.config EXCEPT !["poll_interval_seconds"] = 10][k] =
                IF k = "poll_interval_seconds" THEN 10 ELSE s.config[k]
          BY <1>1 DEF Config
        <5>. QED BY <4>2, <5>1, <5>2, <5>3
      <4>. QED BY <1>5, <4>2, <4>4, <4>5
    <3>3. CASE line.value.text # "ten"
      BY <1>1, <1>5, <2>4, <3>1, <3>3 DEF ReadLine, Unquote, State, Sets
    <3>. QED BY <3>2, <3>3
  <2>. QED BY <2>2, <2>3, <2>4
<1>. QED BY <1>3, <1>4, <1>5, LineKinds

\* What LoadConfig has read after each line: the fold of Read, line by line.
LEMMA ReadSteps ==
  ASSUME NEW f \in Seq(FileLine)
  PROVE  \E w \in [0 .. Len(f) -> State] :
           /\ w[0] = Start /\ Read(f) = w[Len(f)].config
           /\ \A i \in 1 .. Len(f) : w[i] = ReadLine(w[i - 1], f[i])
<1>. DEFINE n == Len(f)
            g == [i \in 1 .. n |-> [s \in State |-> ReadLine(s, f[i])]]
            Is(it) == it = [T \in SUBSET DOMAIN f |->
                IF T = {} THEN Start ELSE ReadLine(it[T \ {Max(T)}], f[Max(T)])]
            it == CHOOSE h : Is(h)
<1>1. n \in Nat /\ DOMAIN f = 1 .. n /\ \A i \in 1 .. n : f[i] \in FileLine
  OBVIOUS
<1>2. Read(f) = it[DOMAIN f].config
  BY DEF Read, FoldLeft, MapThenFoldSet, Start
<1>3. Is(it)
  <2>1. g \in [1 .. n -> [State -> State]]
    BY <1>1, ReadLineSays
  <2>2. PICK h \in [SUBSET (1 .. n) -> State] : \A T \in SUBSET (1 .. n) :
           h[T] = IF T = {} THEN Start ELSE g[Max(T)][h[T \ {Max(T)}]]
    <3>1. \E h \in [SUBSET (1 .. n) -> State] : IsFold(h, Start, n, g)
      <4>. HIDE DEF g, n
      <4>. QED BY <1>1, <2>1, StartType, FoldExists
    <3>. HIDE DEF g, n
    <3>. QED BY <3>1 DEF IsFold
  <2>3. ASSUME NEW T \in SUBSET (1 .. n), T # {}
        PROVE  g[Max(T)][h[T \ {Max(T)}]] = ReadLine(h[T \ {Max(T)}], f[Max(T)])
    <3>1. Max(T) \in 1 .. n
      BY <1>1, <2>3, Largest
    <3>2. h[T \ {Max(T)}] \in State
      <4>1. T \ {Max(T)} \in SUBSET (1 .. n)
        OBVIOUS
      <4>. HIDE DEF n
      <4>. QED BY <4>1, <2>2
    <3>. QED BY <3>1, <3>2
  <2>4. \A T \in SUBSET (1 .. n) :
          h[T] = IF T = {} THEN Start ELSE ReadLine(h[T \ {Max(T)}], f[Max(T)])
    <3>. HIDE DEF n, g
    <3>. QED BY <2>2, <2>3
  <2>5. Is(h)
    <3>. HIDE DEF n, g
    <3>. QED BY <1>1, <2>2, <2>4
  <2>. HIDE DEF Is
  <2>. QED BY <2>5
<1>. DEFINE w == [i \in 0 .. n |-> it[1 .. i]]
<1>4. w[0] = Start
  <2>1. 1 .. 0 = {} /\ 0 \in 0 .. n
    BY <1>1
  <2>2. it[{}] = Start
    <3>. HIDE DEF it
    <3>. QED BY <1>3
  <2>. HIDE DEF it
  <2>. QED BY <2>1, <2>2
<1>5. ASSUME NEW i \in 1 .. n
      PROVE  w[i] = ReadLine(w[i - 1], f[i])
  <2>1. i \in 0 .. n /\ i - 1 \in 0 .. n
    BY <1>1
  <2>2. /\ 1 .. i # {} /\ 1 .. i \in SUBSET (1 .. n)
        /\ Max(1 .. i) = i /\ (1 .. i) \ {i} = 1 .. i - 1
    BY <1>1, PrefixSets
  <2>3. it[1 .. i] = ReadLine(it[1 .. i - 1], f[i])
    <3>1. ASSUME NEW T \in SUBSET (1 .. n), T # {}
          PROVE  it[T] = ReadLine(it[T \ {Max(T)}], f[Max(T)])
      <4>. HIDE DEF it, n
      <4>. QED BY <1>1, <1>3, <3>1
    <3>. HIDE DEF it, n
    <3>. QED BY <3>1, <2>2
  <2>. HIDE DEF it
  <2>. QED BY <2>1, <2>3
<1>. DEFINE S == {i \in 0 .. n : w[i] \in State}
<1>6. 0 .. n \subseteq S
  <2>1. 0 \in S
    <3>1. 0 \in 0 .. n
      BY <1>1
    <3>. HIDE DEF w
    <3>. QED BY <1>4, <3>1, StartType
  <2>2. ASSUME NEW i \in 1 .. n, i - 1 \in S
        PROVE  i \in S
    <3>. HIDE DEF w
    <3>. QED BY <1>1, <1>5, <2>2, ReadLineSays
  <2>. HIDE DEF S
  <2>. QED BY <1>1, <2>1, <2>2, UpTo
<1>7. w \in [0 .. n -> State]
  <2>. HIDE DEF it
  <2>. QED BY <1>6
<1>8. Read(f) = w[n].config
  <2>. HIDE DEF it
  <2>. QED BY <1>1, <1>2
<1>. HIDE DEF w
<1>. QED BY <1>4, <1>5, <1>7, <1>8

\* The last section up to line i is the section the next line is in.
InSection(f, i, section) ==
  LET upTo == {n \in 1 .. i : f[n].is = "section"} IN
    \/ upTo = {} /\ section = ""
    \/ \E n \in upTo : section = f[n].name /\ \A m \in upTo : m <= n

\* The last line up to i that assigns k gives the value v.
HasValue(f, i, k, v) ==
  LET upTo == {n \in Assigning(f, k) : n <= i} IN
    \/ upTo = {} /\ v = Default[k]
    \/ \E n \in upTo : v = ValueIn(f[n], k) /\ \A m \in upTo : m <= n

\* In its section a line sets a key exactly when Assigning names it.
LEMMA SetsIsAssigning ==
  ASSUME NEW f \in Seq(FileLine), NEW i \in 1 .. Len(f), NEW k \in Keys,
         NEW section, InSection(f, i - 1, section)
  PROVE  Sets(f[i], section, k) <=> i \in Assigning(f, k)
<1>. DEFINE before == {n \in 1 .. i - 1 : f[n].is = "section"}
<1>1. /\ Len(f) \in Nat /\ DOMAIN f = 1 .. Len(f)
      /\ \A n \in 1 .. i - 1 : n \in 1 .. Len(f) /\ f[n] \in FileLine
  OBVIOUS
<1>2. \/ before = {} /\ section = ""
      \/ \E n \in before : section = f[n].name /\ \A m \in before : m <= n
  BY DEF InSection
<1>3. \A n \in before : f[n].name \in Sections /\ n \in Nat
  BY <1>1, LineKinds
<1>4. i \in Assigning(f, k) <=>
        /\ f[i].is = "assignment" /\ f[i].key = k
        /\ IF k = "token_file"
             THEN \E n \in before : f[n].name = "auth" /\ \A m \in before : m <= n
             ELSE before = {}
        /\ k = "poll_interval_seconds" => f[i].value.text = "ten"
  BY <1>1 DEF Assigning
<1>. HIDE DEF before
<1>5. "" \notin Sections
  BY DEF Sections
<1>6. section = "" <=> before = {}
  BY <1>2, <1>3, <1>5
<1>7. section = "auth" <=> \E n \in before : f[n].name = "auth" /\ \A m \in before : m <= n
  <2>1. ASSUME NEW n \in before, \A m \in before : m <= n,
               NEW q \in before, \A m \in before : m <= q
        PROVE  n = q
    <3>1. n <= q /\ q <= n /\ n \in Nat /\ q \in Nat
      BY <1>3, <2>1
    <3>. QED BY <3>1
  <2>. QED BY <1>2, <2>1
<1>. QED BY <1>4, <1>6, <1>7 DEF Sets, Belongs

\* The section after a line.
LEMMA InSectionStep ==
  ASSUME NEW f \in Seq(FileLine), NEW i \in 1 .. Len(f), NEW section,
         InSection(f, i - 1, section)
  PROVE  InSection(f, i, IF f[i].is = "section" THEN f[i].name ELSE section)
<1>. SUFFICES ASSUME NEW s, s = IF f[i].is = "section" THEN f[i].name ELSE section
              PROVE  InSection(f, i, s)
  OBVIOUS
<1>. DEFINE before == {n \in 1 .. i - 1 : f[n].is = "section"}
            after == {n \in 1 .. i : f[n].is = "section"}
<1>1. after = IF f[i].is = "section" THEN before \cup {i} ELSE before
  OBVIOUS
<1>2. \A n \in before : n <= i
  OBVIOUS
<1>3. \/ before = {} /\ section = ""
      \/ \E n \in before : section = f[n].name /\ \A m \in before : m <= n
  BY DEF InSection
<1>. HIDE DEF before
<1>4. CASE f[i].is = "section"
  <2>1. after = before \cup {i} /\ i <= i
    BY <1>1, <1>4
  <2>2. i \in after /\ \A m \in after : m <= i
    <3>. HIDE DEF after
    <3>. QED BY <1>2, <2>1
  <2>3. s = f[i].name
    BY <1>4
  <2>. QED BY <2>2, <2>3 DEF InSection
<1>5. CASE f[i].is # "section"
  <2>1. after = before
    BY <1>1, <1>5
  <2>2. \/ after = {} /\ s = ""
        \/ \E n \in after : s = f[n].name /\ \A m \in after : m <= n
    <3>1. s = section
      BY <1>5
    <3>. HIDE DEF after
    <3>. QED BY <1>3, <2>1, <3>1
  <2>. QED BY <2>2 DEF InSection
<1>. QED BY <1>4, <1>5

\* The value after a line.
LEMMA HasValueStep ==
  ASSUME NEW f \in Seq(FileLine), NEW i \in 1 .. Len(f), NEW k \in Keys,
         NEW v, HasValue(f, i - 1, k, v)
  PROVE  HasValue(f, i, k, IF i \in Assigning(f, k) THEN ValueIn(f[i], k) ELSE v)
<1>. DEFINE before == {n \in Assigning(f, k) : n <= i - 1}
            upTo == {n \in Assigning(f, k) : n <= i}
<1>1. Assigning(f, k) \subseteq Nat
  <2>1. DOMAIN f \subseteq Nat
    OBVIOUS
  <2>. QED BY <2>1 DEF Assigning
<1>2. upTo = IF i \in Assigning(f, k) THEN before \cup {i} ELSE before
  BY <1>1
<1>3. \A n \in before : n <= i
  BY <1>1
<1>4. \/ before = {} /\ v = Default[k]
      \/ \E n \in before : v = ValueIn(f[n], k) /\ \A m \in before : m <= n
  BY DEF HasValue
<1>. HIDE DEF before
<1>5. CASE i \in Assigning(f, k)
  <2>1. upTo = before \cup {i} /\ i <= i
    BY <1>2, <1>5
  <2>2. i \in upTo /\ \A m \in upTo : m <= i
    <3>. HIDE DEF upTo
    <3>. QED BY <1>3, <2>1
  <2>. QED BY <1>5, <2>2 DEF HasValue
<1>6. CASE i \notin Assigning(f, k)
  <2>1. upTo = before
    BY <1>2, <1>6
  <2>2. \/ upTo = {} /\ v = Default[k]
        \/ \E n \in upTo : v = ValueIn(f[n], k) /\ \A m \in upTo : m <= n
    <3>. HIDE DEF upTo
    <3>. QED BY <1>4, <2>1
  <2>. QED BY <1>6, <2>2 DEF HasValue
<1>. QED BY <1>5, <1>6

\* What has been read after i lines.
LEMMA ReadSays ==
  ASSUME NEW f \in Seq(FileLine), NEW k \in Keys
  PROVE  Read(f)[k] = ValueOf(f, k)
<1>. DEFINE n == Len(f)
<1>1. n \in Nat /\ \A i \in 1 .. n : f[i] \in FileLine
  OBVIOUS
<1>2. PICK w \in [0 .. n -> State] :
         /\ w[0] = Start /\ Read(f) = w[n].config
         /\ \A i \in 1 .. n : w[i] = ReadLine(w[i - 1], f[i])
  BY ReadSteps
<1>. DEFINE S == {i \in 0 .. n : /\ InSection(f, i, w[i].section)
                                /\ HasValue(f, i, k, w[i].config[k])}
<1>3. 0 \in S
  <2>1. InSection(f, 0, "")
    BY DEF InSection
  <2>2. {m \in Assigning(f, k) : m <= 0} = {}
    <3>1. \A m \in DOMAIN f : ~(m <= 0)
      OBVIOUS
    <3>. QED BY <3>1 DEF Assigning
  <2>3. HasValue(f, 0, k, Default[k])
    BY <2>2 DEF HasValue
  <2>4. w[0].section = "" /\ w[0].config = Default
    <3>1. Start.section = "" /\ Start.config = Default
      BY DEF Start
    <3>. QED BY <1>2, <3>1
  <2>5. 0 \in 0 .. n
    BY <1>1
  <2>. QED BY <2>1, <2>3, <2>4, <2>5
<1>4. ASSUME NEW i \in 1 .. n, i - 1 \in S
      PROVE  i \in S
  <2>1. /\ InSection(f, i - 1, w[i - 1].section)
        /\ HasValue(f, i - 1, k, w[i - 1].config[k])
        /\ w[i - 1] \in State /\ i \in 0 .. n
    <3>1. i - 1 \in 0 .. n
      BY <1>1
    <3>. QED BY <1>2, <1>4, <3>1
  <2>2. /\ w[i].section = IF f[i].is = "section" THEN f[i].name ELSE w[i - 1].section
        /\ w[i].config[k] = IF Sets(f[i], w[i - 1].section, k)
                             THEN ValueIn(f[i], k) ELSE w[i - 1].config[k]
    <3>1. w[i] = ReadLine(w[i - 1], f[i])
      BY <1>2
    <3>2. f[i] \in FileLine
      BY <1>1
    <3>3. LET s == w[i - 1] IN
            /\ ReadLine(s, f[i]).section = IF f[i].is = "section" THEN f[i].name ELSE s.section
            /\ ReadLine(s, f[i]).config[k] =
                 IF Sets(f[i], s.section, k) THEN ValueIn(f[i], k) ELSE s.config[k]
      BY <2>1, <3>2, ReadLineSays
    <3>. QED BY <3>1, <3>3
  <2>3. Sets(f[i], w[i - 1].section, k) <=> i \in Assigning(f, k)
    BY <2>1, SetsIsAssigning
  <2>4. InSection(f, i, w[i].section)
    BY <2>1, <2>2, InSectionStep
  <2>5. HasValue(f, i, k, w[i].config[k])
    BY <2>1, <2>2, <2>3, HasValueStep
  <2>. QED BY <2>1, <2>4, <2>5
<1>5. n \in S
  <2>1. 0 .. n \subseteq S
    <3>. HIDE DEF S
    <3>. QED BY <1>1, <1>3, <1>4, UpTo
  <2>2. n \in 0 .. n
    BY <1>1
  <2>. HIDE DEF S
  <2>. QED BY <2>1, <2>2
<1>6. HasValue(f, n, k, Read(f)[k])
  BY <1>2, <1>5
<1>. DEFINE As == Assigning(f, k)
            last == CHOOSE i \in As : \A m \in As : m <= i
<1>7. As = {m \in As : m <= n} /\ As \subseteq Nat
  <2>1. \A m \in DOMAIN f : m <= n /\ m \in Nat
    OBVIOUS
  <2>. QED BY <2>1 DEF Assigning
<1>8. CASE As = {}
  <2>1. Read(f)[k] = Default[k]
    BY <1>6, <1>8 DEF HasValue
  <2>. QED BY <1>8, <2>1 DEF ValueOf
<1>9. CASE As # {}
  <2>1. PICK m \in As : Read(f)[k] = ValueIn(f[m], k) /\ \A q \in As : q <= m
    <3>1. \/ As = {} /\ Read(f)[k] = Default[k]
          \/ \E m \in As : Read(f)[k] = ValueIn(f[m], k) /\ \A q \in As : q <= m
      BY <1>6, <1>7 DEF HasValue
    <3>. QED BY <1>9, <3>1
  <2>2. last \in As /\ \A q \in As : q <= last
    <3>. HIDE DEF As
    <3>. QED BY <2>1
  <2>3. last = m
    <3>1. last <= m /\ m <= last /\ last \in Nat /\ m \in Nat
      <4>. HIDE DEF last, As
      <4>. QED BY <1>7, <2>1, <2>2
    <3>. HIDE DEF last
    <3>. QED BY <3>1
  <2>4. ValueOf(f, k) = IF k = "poll_interval_seconds" THEN 10 ELSE f[last].value.text
    BY <1>9 DEF ValueOf
  <2>. HIDE DEF last
  <2>. QED BY <2>1, <2>3, <2>4 DEF ValueIn
<1>. QED BY <1>8, <1>9

\* The installer writes lines of a file too.
LEMMA FilesType ==
  ASSUME lines \in Seq(Line), NEW f \in Files
  PROVE  f \in Seq(FileLine)
<1>1. lines \in Seq(FileLine)
  BY LineInFile, SeqMonotonic
<1>2. ASSUME NEW h \in Words, NEW a \in Words
      PROVE  Installed(h, a, "ten") \in Seq(FileLine)
  <2>1. \A w \in Texts : Quoted(w) \in [text : Texts, quoted : BOOLEAN]
    BY DEF Quoted
  <2>2. h \in Texts /\ a \in Texts /\ "ten" \in Texts /\ "/etc/c-plane/agent.token" \in Texts
    BY DEF Texts
  <2>3. \A k \in Keys, w \in Texts : Assign(k, Quoted(w)) \in FileLine
    BY <2>1 DEF FileLine
  <2>4. Noise \in FileLine /\ Section("auth") \in FileLine
    BY DEF FileLine, Sections
  <2>5. /\ Assign("host_id", Quoted(h)) \in FileLine
        /\ Assign("api_url", Quoted(a)) \in FileLine
        /\ Assign("poll_interval_seconds", Quoted("ten")) \in FileLine
        /\ Assign("token_file", Quoted("/etc/c-plane/agent.token")) \in FileLine
    BY <2>2, <2>3 DEF Keys
  <2>. QED BY <2>4, <2>5 DEF Installed
<1>3. CASE f = lines
  BY <1>1, <1>3
<1>4. CASE \E h, a \in Given : f = Installed(h, a, "ten") \o lines
  <2>1. PICK h \in Words, a \in Words : f = Installed(h, a, "ten") \o lines
    BY <1>4 DEF Given
  <2>2. Installed(h, a, "ten") \in Seq(FileLine)
    BY <1>2
  <2>. QED BY <1>1, <2>1, <2>2, ConcatProperties
<1>5. f = lines \/ \E h, a \in Given : f = Installed(h, a, "ten") \o lines
  BY DEF Files
<1>. QED BY <1>3, <1>4, <1>5

\* Every setting is what the last line that assigns it says, so it is empty
\* exactly when that line, or the default, is.
LEMMA LastLineDecidesHolds ==
  ASSUME lines \in Seq(Line)
  PROVE  LastLineDecides
<1>. SUFFICES ASSUME NEW f \in Files
              PROVE  /\ \A k \in Keys : Read(f)[k] = ValueOf(f, k)
                     /\ Loads(f) <=> \A k \in Keys \ {"poll_interval_seconds"} : ValueOf(f, k) # ""
  BY DEF LastLineDecides
<1>1. \A k \in Keys : Read(f)[k] = ValueOf(f, k)
  BY FilesType, ReadSays
<1>2. Keys \ {"poll_interval_seconds"} = {"host_id", "api_url", "token_file"}
  BY DEF Keys
<1>3. Loads(f) <=> \A k \in Keys \ {"poll_interval_seconds"} : Read(f)[k] # ""
  BY <1>2 DEF Loads
<1>. QED BY <1>1, <1>3

-----------------------------------------------------------------------------
(* The reference: Ordered.                                                 *)

\* p lists the n members of S from the least one on.
Lists(p, n, S) ==
  /\ p \in [1 .. n -> S]
  /\ \A i, j \in 1 .. n : i < j => p[i] < p[j]
  /\ \A x \in S : \E i \in 1 .. n : p[i] = x

\* A list goes on with a number larger than all others.
LEMMA ListsAppend ==
  ASSUME NEW n \in Nat, NEW S, S \subseteq 1 .. n, NEW c \in Nat, NEW p, Lists(p, c, S)
  PROVE  Lists([i \in 1 .. c + 1 |-> IF i = c + 1 THEN n + 1 ELSE p[i]], c + 1, S \cup {n + 1})
<1>. DEFINE q == [i \in 1 .. c + 1 |-> IF i = c + 1 THEN n + 1 ELSE p[i]]
            T == S \cup {n + 1}
<1>1. /\ p \in [1 .. c -> S]
      /\ \A i, j \in 1 .. c : i < j => p[i] < p[j]
      /\ \A x \in S : \E i \in 1 .. c : p[i] = x
  BY DEF Lists
<1>2. \A i \in 1 .. c + 1 : i # c + 1 => i \in 1 .. c
  OBVIOUS
<1>3. q \in [1 .. c + 1 -> T]
  BY <1>1, <1>2
<1>4. ASSUME NEW i \in 1 .. c + 1, NEW j \in 1 .. c + 1, i < j
      PROVE  q[i] < q[j]
  <2>1. i \in 1 .. c /\ i # c + 1
    BY <1>4
  <2>2. p[i] \in 1 .. n
    BY <1>1, <2>1
  <2>3. CASE j = c + 1
    BY <2>1, <2>2, <2>3
  <2>4. CASE j # c + 1
    <3>1. p[i] < p[j]
      BY <1>1, <1>2, <1>4, <2>1, <2>4
    <3>. QED BY <2>1, <2>4, <3>1
  <2>. QED BY <2>3, <2>4
<1>5. ASSUME NEW x \in T
      PROVE  \E i \in 1 .. c + 1 : q[i] = x
  <2>1. CASE x = n + 1
    <3>1. c + 1 \in 1 .. c + 1
      OBVIOUS
    <3>2. q[c + 1] = x
      BY <2>1, <3>1
    <3>. HIDE DEF q
    <3>. QED BY <3>1, <3>2
  <2>2. CASE x \in S
    <3>1. PICK i \in 1 .. c : p[i] = x
      BY <1>1, <2>2
    <3>2. i \in 1 .. c + 1 /\ i # c + 1
      OBVIOUS
    <3>3. q[i] = x
      BY <3>1, <3>2
    <3>. HIDE DEF q
    <3>. QED BY <3>2, <3>3
  <2>. QED BY <2>1, <2>2
<1>. HIDE DEF q, T
<1>6. Lists(q, c + 1, T)
  BY <1>3, <1>4, <1>5 DEF Lists
<1>. QED BY <1>6 DEF q, T

\* Every set of numbers up to n has a list.
LEMMA ListExists ==
  ASSUME NEW n \in Nat, NEW S, S \subseteq 1 .. n
  PROVE  \E c \in Nat : \E p : Lists(p, c, S)
<1>. DEFINE R == {i \in 0 .. n : \E c \in Nat : \E p : Lists(p, c, S \cap (1 .. i))}
<1>1. 0 \in R
  <2>1. S \cap (1 .. 0) = {} /\ 1 .. 0 = {} /\ 0 \in 0 .. n
    OBVIOUS
  <2>2. Lists([i \in 1 .. 0 |-> 0], 0, {})
    BY <2>1 DEF Lists
  <2>. QED BY <2>1, <2>2
<1>2. ASSUME NEW i \in 1 .. n, i - 1 \in R
      PROVE  i \in R
  <2>. DEFINE T == S \cap (1 .. i - 1)
  <2>1. PICK c \in Nat : \E p : Lists(p, c, T)
    BY <1>2
  <2>2. i \in 0 .. n /\ i - 1 \in Nat /\ T \subseteq 1 .. i - 1 /\ i - 1 + 1 = i
    OBVIOUS
  <2>3. CASE i \in S
    <3>1. S \cap (1 .. i) = T \cup {i}
      BY <2>3
    <3>2. \E q : Lists(q, c + 1, T \cup {i - 1 + 1})
      <4>. HIDE DEF T
      <4>. QED BY <2>1, <2>2, ListsAppend
    <3>3. c + 1 \in Nat
      OBVIOUS
    <3>. HIDE DEF T
    <3>. QED BY <2>2, <3>1, <3>2, <3>3
  <2>4. CASE i \notin S
    <3>1. S \cap (1 .. i) = T
      BY <2>4
    <3>. HIDE DEF T
    <3>. QED BY <2>1, <2>2, <3>1
  <2>. QED BY <2>3, <2>4
<1>3. n \in R
  <2>1. 0 .. n \subseteq R
    <3>. HIDE DEF R
    <3>. QED BY <1>1, <1>2, UpTo
  <2>2. n \in 0 .. n
    OBVIOUS
  <2>. HIDE DEF R
  <2>. QED BY <2>1, <2>2
<1>4. S \cap (1 .. n) = S
  OBVIOUS
<1>. QED BY <1>3, <1>4

\* A list is as long as its set is large.
LEMMA ListCounts ==
  ASSUME NEW n \in Nat, NEW S, S \subseteq 1 .. n, NEW c \in Nat, NEW p, Lists(p, c, S)
  PROVE  Cardinality(S) = c
<1>1. /\ p \in [1 .. c -> S]
      /\ \A i, j \in 1 .. c : i < j => p[i] < p[j]
      /\ \A x \in S : \E i \in 1 .. c : p[i] = x
  BY DEF Lists
<1>2. ASSUME NEW i \in 1 .. c, NEW j \in 1 .. c, p[i] = p[j]
      PROVE  i = j
  <2>1. p[i] \in Nat /\ p[j] \in Nat
    <3>1. S \subseteq Nat
      OBVIOUS
    <3>. QED BY <1>1, <3>1
  <2>2. ~(p[i] < p[j]) /\ ~(p[j] < p[i])
    BY <1>2, <2>1
  <2>3. ~(i < j) /\ ~(j < i)
    BY <1>1, <2>2
  <2>. QED BY <2>3
<1>3. p \in Bijection(1 .. c, S)
  BY <1>1, <1>2 DEF Bijection, Injection, Surjection, IsInjective
<1>4. ExistsBijection(1 .. c, S)
  BY <1>3 DEF ExistsBijection
<1>. QED BY <1>4, FS_CountingElements

\* There is only one list of a set.
LEMMA OneList ==
  ASSUME NEW S, S \subseteq Nat, NEW c \in Nat,
         NEW p, Lists(p, c, S), NEW q, Lists(q, c, S)
  PROVE  p = q
<1>. DEFINE D == {i \in 1 .. c : p[i] # q[i]}
<1>1. /\ p \in [1 .. c -> S] /\ q \in [1 .. c -> S]
      /\ \A i, j \in 1 .. c : i < j => p[i] < p[j] /\ q[i] < q[j]
      /\ \A x \in S : (\E i \in 1 .. c : p[i] = x) /\ (\E i \in 1 .. c : q[i] = x)
  BY DEF Lists
<1>2. CASE D = {}
  BY <1>1, <1>2
<1>3. CASE D # {}
  <2>1. PICK i \in D : \A k \in D : i <= k
    <3>1. D \subseteq Nat
      OBVIOUS
    <3>. HIDE DEF D
    <3>. QED BY <1>3, <3>1, Least
  <2>2. /\ i \in 1 .. c /\ p[i] # q[i] /\ p[i] \in S /\ q[i] \in S
        /\ \A k \in 1 .. c : k < i => p[k] = q[k]
    BY <1>1, <2>1
  <2>3. PICK j \in 1 .. c : q[j] = p[i]
    BY <1>1, <2>2
  <2>4. PICK k \in 1 .. c : p[k] = q[i]
    BY <1>1, <2>2
  <2>5. \A m \in 1 .. c : p[m] \in Nat /\ q[m] \in Nat
    BY <1>1
  <2>6. ~(j < i)
    BY <1>1, <2>2, <2>3, <2>5
  <2>7. ~(k < i)
    BY <1>1, <2>2, <2>4, <2>5
  <2>8. j # i /\ k # i
    BY <2>2, <2>3, <2>4
  <2>9. q[i] < q[j] /\ p[i] < p[k]
    BY <1>1, <2>2, <2>6, <2>7, <2>8
  <2>. QED BY <2>2, <2>3, <2>4, <2>5, <2>9
<1>. QED BY <1>2, <1>3

\* Ordered chooses that list.
LEMMA OrderedLists ==
  ASSUME NEW n \in Nat, NEW S, S \subseteq 1 .. n
  PROVE  Cardinality(S) \in Nat /\ Lists(Ordered(S), Cardinality(S), S)
<1>1. PICK c \in Nat : \E p : Lists(p, c, S)
  BY ListExists
<1>2. Cardinality(S) = c
  BY <1>1, ListCounts
<1>3. PICK p : p \in [1 .. c -> S] /\ \A i, j \in 1 .. c : i < j => p[i] < p[j]
  BY <1>1 DEF Lists
<1>. DEFINE q == Ordered(S)
<1>4. q \in [1 .. c -> S] /\ \A i, j \in 1 .. c : i < j => q[i] < q[j]
  BY <1>2, <1>3 DEF Ordered
<1>. HIDE DEF q
<1>5. ASSUME NEW i \in 1 .. c, NEW j \in 1 .. c, q[i] = q[j]
      PROVE  i = j
  <2>1. q[i] \in Nat /\ q[j] \in Nat
    <3>1. S \subseteq Nat
      OBVIOUS
    <3>. QED BY <1>4, <3>1
  <2>2. ~(q[i] < q[j]) /\ ~(q[j] < q[i])
    BY <1>5, <2>1
  <2>3. ~(i < j) /\ ~(j < i)
    BY <1>4, <2>2
  <2>. QED BY <2>3
<1>6. q \in Injection(1 .. c, S)
  BY <1>4, <1>5 DEF Injection, IsInjective
<1>7. IsFiniteSet(1 .. n) /\ IsFiniteSet(1 .. c) /\ Cardinality(1 .. c) = c
  BY FS_Interval
<1>8. IsFiniteSet(S)
  BY <1>7, FS_Subset
<1>9. q \in Surjection(1 .. c, S)
  BY <1>2, <1>6, <1>7, <1>8, FS_Injection
<1>10. Lists(q, c, S)
  BY <1>4, <1>9 DEF Lists, Surjection
<1>. QED BY <1>2, <1>10 DEF q

\* A number larger than all others comes last.
LEMMA OrderedAppend ==
  ASSUME NEW n \in Nat, NEW S, S \subseteq 1 .. n
  PROVE  /\ Cardinality(S \cup {n + 1}) = Cardinality(S) + 1
         /\ \A i \in 1 .. Cardinality(S) + 1 : Ordered(S \cup {n + 1})[i] =
              IF i = Cardinality(S) + 1 THEN n + 1 ELSE Ordered(S)[i]
<1>. DEFINE c == Cardinality(S)
            T == S \cup {n + 1}
            q == [i \in 1 .. c + 1 |-> IF i = c + 1 THEN n + 1 ELSE Ordered(S)[i]]
<1>1. c \in Nat /\ Lists(Ordered(S), c, S)
  BY OrderedLists
<1>2. Lists(q, c + 1, T)
  <2>. HIDE DEF c
  <2>. QED BY <1>1, ListsAppend
<1>3. T \subseteq 1 .. n + 1 /\ T \subseteq Nat /\ n + 1 \in Nat
  OBVIOUS
<1>4. c + 1 \in Nat
  <2>. HIDE DEF c
  <2>. QED BY <1>1
<1>. HIDE DEF c, q, T
<1>5. Cardinality(T) = c + 1
  BY <1>2, <1>3, <1>4, ListCounts
<1>6. Lists(Ordered(T), c + 1, T)
  BY <1>3, <1>5, OrderedLists
<1>7. Ordered(T) = q
  BY <1>2, <1>3, <1>4, <1>6, OneList
<1>. QED BY <1>5, <1>7 DEF T, q, c

-----------------------------------------------------------------------------
(* The reference: FlattenSeq.                                              *)

\* Steps one after the other.
LEMMA Iterated ==
  ASSUME NEW A, NEW a \in A, NEW n \in Nat, NEW g \in [1 .. n -> [A -> A]]
  PROVE  \E w \in [0 .. n -> A] : w[0] = a /\ \A i \in 1 .. n : w[i] = g[i][w[i - 1]]
<1>1. PICK it \in [SUBSET (1 .. n) -> A] : \A T \in SUBSET (1 .. n) :
         it[T] = IF T = {} THEN a ELSE g[Max(T)][it[T \ {Max(T)}]]
  <2>1. \E it \in [SUBSET (1 .. n) -> A] : IsFold(it, a, n, g)
    BY FoldExists
  <2>. QED BY <2>1 DEF IsFold
<1>. DEFINE w == [i \in 0 .. n |-> it[1 .. i]]
<1>2. w \in [0 .. n -> A]
  <2>1. \A i \in 0 .. n : 1 .. i \in SUBSET (1 .. n)
    OBVIOUS
  <2>. QED BY <1>1, <2>1
<1>3. w[0] = a
  <2>1. 1 .. 0 = {} /\ 0 \in 0 .. n /\ {} \in SUBSET (1 .. n)
    OBVIOUS
  <2>2. it[{}] = a
    BY <1>1, <2>1
  <2>. QED BY <2>1, <2>2
<1>4. ASSUME NEW i \in 1 .. n
      PROVE  w[i] = g[i][w[i - 1]]
  <2>1. i \in 0 .. n /\ i - 1 \in 0 .. n
    OBVIOUS
  <2>2. /\ 1 .. i # {} /\ 1 .. i \in SUBSET (1 .. n)
        /\ Max(1 .. i) = i /\ (1 .. i) \ {i} = 1 .. i - 1
    BY PrefixSets
  <2>3. ASSUME NEW T \in SUBSET (1 .. n), T # {}
        PROVE  it[T] = g[Max(T)][it[T \ {Max(T)}]]
    BY <1>1, <2>3
  <2>4. it[1 .. i] = g[i][it[1 .. i - 1]]
    BY <2>2, <2>3
  <2>. QED BY <2>1, <2>4
<1>. HIDE DEF w
<1>. QED BY <1>2, <1>3, <1>4

\* What FlattenSeq puts together.
Pieces == Seq(TokenChars)

\* Pieces are joined to pieces.
LEMMA PiecesJoin ==
  /\ <<>> \in Pieces
  /\ \A x, y \in Pieces : x \o y \in Pieces
  /\ \A x \in Pieces : <<>> \o x = x /\ x \o <<>> = x
BY ConcatProperties, ConcatEmptySeq DEF Pieces

\* What FlattenSeq has put together after each piece.
LEMMA FlattenSteps ==
  ASSUME NEW n \in Nat, NEW p \in [1 .. n -> Pieces]
  PROVE  \E w \in [0 .. n -> Pieces] :
           /\ w[0] = <<>> /\ FlattenSeq(p) = w[n]
           /\ \A i \in 1 .. n : w[i] = w[i - 1] \o p[i]
<1>. DEFINE g == [i \in 1 .. n |-> [b \in Pieces |-> b \o p[i]]]
            Is(f) == f = [i \in 1 .. Len(p) |-> IF i = 1 THEN p[i] ELSE f[i - 1] \o p[i]]
            flat == CHOOSE f : Is(f)
<1>1. Len(p) = n
  OBVIOUS
<1>2. PICK w \in [0 .. n -> Pieces] :
         w[0] = <<>> /\ \A i \in 1 .. n : w[i] = w[i - 1] \o p[i]
  <2>1. g \in [1 .. n -> [Pieces -> Pieces]] /\ <<>> \in Pieces
    BY PiecesJoin
  <2>2. PICK w \in [0 .. n -> Pieces] :
          w[0] = <<>> /\ \A i \in 1 .. n : w[i] = g[i][w[i - 1]]
    <3>. HIDE DEF g
    <3>. QED BY <2>1, Iterated
  <2>3. ASSUME NEW i \in 1 .. n
        PROVE  w[i] = w[i - 1] \o p[i]
    <3>1. w[i - 1] \in Pieces
      OBVIOUS
    <3>. QED BY <2>2, <3>1
  <2>. QED BY <2>2, <2>3
<1>3. CASE n = 0
  <2>1. FlattenSeq(p) = p /\ p = <<>>
    BY <1>1, <1>3 DEF FlattenSeq
  <2>. QED BY <1>2, <1>3, <2>1
<1>4. CASE n # 0
  <2>1. FlattenSeq(p) = flat[n]
    BY <1>1, <1>4 DEF FlattenSeq
  <2>2. Is([i \in 1 .. n |-> w[i]])
    <3>. DEFINE f == [i \in 1 .. n |-> w[i]]
    <3>1. ASSUME NEW i \in 1 .. n
          PROVE  w[i] = IF i = 1 THEN p[i] ELSE f[i - 1] \o p[i]
      <4>1. CASE i = 1
        <5>1. w[i] = w[i - 1] \o p[i] /\ p[i] \in Pieces
          BY <1>2
        <5>2. i - 1 = 0
          BY <4>1
        <5>. QED BY <1>2, <4>1, <5>1, <5>2, PiecesJoin
      <4>2. CASE i # 1
        <5>1. i - 1 \in 1 .. n
          BY <4>2
        <5>. QED BY <1>2, <4>2, <5>1
      <4>. QED BY <4>1, <4>2
    <3>. QED BY <1>1, <3>1
  <2>3. Is(flat)
    <3>. HIDE DEF Is
    <3>. QED BY <2>2
  <2>. HIDE DEF flat
  <2>. DEFINE S == {i \in 0 .. n : i = 0 \/ flat[i] = w[i]}
  <2>4. 0 \in S
    OBVIOUS
  <2>5. ASSUME NEW i \in 1 .. n, i - 1 \in S
        PROVE  i \in S
    <3>1. flat[i] = IF i = 1 THEN p[i] ELSE flat[i - 1] \o p[i]
      BY <1>1, <2>3
    <3>2. w[i] = w[i - 1] \o p[i] /\ p[i] \in Pieces
      BY <1>2
    <3>3. CASE i = 1
      <4>1. i - 1 = 0
        BY <3>3
      <4>2. w[i] = p[i]
        BY <1>2, <3>2, <4>1, PiecesJoin
      <4>. QED BY <3>1, <3>3, <4>2
    <3>4. CASE i # 1
      <4>1. flat[i - 1] = w[i - 1]
        BY <2>5, <3>4
      <4>2. flat[i] = w[i]
        BY <3>1, <3>2, <3>4, <4>1
      <4>. QED BY <4>2
    <3>. QED BY <3>3, <3>4
  <2>6. n \in S
    <3>1. 0 .. n \subseteq S
      <4>. HIDE DEF S
      <4>. QED BY <2>4, <2>5, UpTo
    <3>2. n \in 0 .. n
      OBVIOUS
    <3>. HIDE DEF S
    <3>. QED BY <3>1, <3>2
  <2>. QED BY <1>2, <1>4, <2>1, <2>6
<1>. QED BY <1>3, <1>4

\* What FlattenSeq puts together is text of a token.
LEMMA FlattenType ==
  ASSUME NEW n \in Nat, NEW p \in [1 .. n -> Pieces]
  PROVE  FlattenSeq(p) \in Pieces
<1>1. PICK w \in [0 .. n -> Pieces] : FlattenSeq(p) = w[n]
  BY FlattenSteps
<1>2. n \in 0 .. n
  OBVIOUS
<1>. QED BY <1>1, <1>2

\* One more piece comes at the end.
LEMMA FlattenAppend ==
  ASSUME NEW n \in Nat, NEW p \in [1 .. n -> Pieces], NEW q \in [1 .. n + 1 -> Pieces],
         \A i \in 1 .. n : q[i] = p[i]
  PROVE  FlattenSeq(q) = FlattenSeq(p) \o q[n + 1]
<1>1. PICK w \in [0 .. n -> Pieces] :
         /\ w[0] = <<>> /\ FlattenSeq(p) = w[n]
         /\ \A i \in 1 .. n : w[i] = w[i - 1] \o p[i]
  BY FlattenSteps
<1>2. PICK u \in [0 .. n + 1 -> Pieces] :
         /\ u[0] = <<>> /\ FlattenSeq(q) = u[n + 1]
         /\ \A i \in 1 .. n + 1 : u[i] = u[i - 1] \o q[i]
  <2>1. n + 1 \in Nat
    OBVIOUS
  <2>. QED BY <2>1, FlattenSteps
<1>. DEFINE S == {i \in 0 .. n : u[i] = w[i]}
<1>3. 0 \in S
  BY <1>1, <1>2
<1>4. ASSUME NEW i \in 1 .. n, i - 1 \in S
      PROVE  i \in S
  <2>1. i \in 1 .. n + 1 /\ i \in 0 .. n
    OBVIOUS
  <2>. QED BY <1>1, <1>2, <1>4, <2>1
<1>5. n \in S
  <2>1. 0 .. n \subseteq S
    <3>. HIDE DEF S
    <3>. QED BY <1>3, <1>4, UpTo
  <2>2. n \in 0 .. n
    OBVIOUS
  <2>. HIDE DEF S
  <2>. QED BY <2>1, <2>2
<1>6. u[n + 1] = u[n] \o q[n + 1]
  <2>1. ASSUME NEW m, m = n + 1
        PROVE  u[m] = u[n] \o q[m]
    <3>1. m \in 1 .. n + 1 /\ m - 1 = n
      BY <2>1
    <3>. QED BY <1>2, <3>1
  <2>. QED BY <2>1
<1>. QED BY <1>1, <1>2, <1>5, <1>6

-----------------------------------------------------------------------------
(* The reference and the loop.                                             *)

\* The places of the letters and digits.
Marks(s) == {i \in DOMAIN s : Lower(s[i]) \in Kept}

\* What Joined writes for the mark at place[i].
Part(s, place, i) ==
  (IF i > 1 /\ place[i] > place[i - 1] + 1 THEN <<"-">> ELSE <<>>) \o <<Lower(s[place[i]])>>

\* Marks are places of a text with a letter or digit.
LEMMA MarksType ==
  ASSUME NEW s \in Seq(Chars)
  PROVE  /\ Len(s) \in Nat /\ Marks(s) \subseteq 1 .. Len(s)
         /\ \A i \in Marks(s) : Lower(s[i]) \in Kept
BY DEF Marks

\* A letter or digit, with the hyphen before it, is a piece.
LEMMA PartType ==
  ASSUME NEW s \in Seq(Chars), NEW c \in Nat, NEW place \in [1 .. c -> Marks(s)],
         NEW i \in 1 .. c
  PROVE  Part(s, place, i) \in Pieces
<1>1. Lower(s[place[i]]) \in TokenChars /\ "-" \in TokenChars
  BY MarksType DEF TokenChars
<1>2. <<"-">> \in Pieces /\ <<Lower(s[place[i]])>> \in Pieces
  BY <1>1 DEF Pieces
<1>. QED BY <1>2, PiecesJoin DEF Part

\* Joined, by the list of its marks and its pieces.
LEMMA JoinedParts ==
  ASSUME NEW s \in Seq(Chars), NEW c, c = Cardinality(Marks(s)),
         NEW place, place = Ordered(Marks(s))
  PROVE  /\ c \in Nat /\ Lists(place, c, Marks(s))
         /\ [i \in 1 .. c |-> Part(s, place, i)] \in [1 .. c -> Pieces]
         /\ Joined(s) = FlattenSeq([i \in 1 .. c |-> Part(s, place, i)])
<1>1. c \in Nat /\ Lists(place, c, Marks(s))
  BY MarksType, OrderedLists
<1>2. place \in [1 .. c -> Marks(s)]
  BY <1>1 DEF Lists
<1>3. \A i \in 1 .. c : Part(s, place, i) \in Pieces
  BY <1>1, <1>2, PartType
<1>4. DOMAIN place = 1 .. c
  BY <1>2
<1>5. Joined(s) = FlattenSeq([i \in DOMAIN place |-> Part(s, place, i)])
  BY DEF Joined, Part, Marks
<1>. QED BY <1>1, <1>3, <1>4, <1>5

\* A hyphen is due before the next letter or digit.
Due(s) == Marks(s) # {} /\ Len(s) \notin Marks(s)

\* One more letter or digit is one more mark.
LEMMA MarksAppend ==
  ASSUME NEW s \in Seq(Chars), NEW x \in Chars
  PROVE  /\ Append(s, x) \in Seq(Chars) /\ Len(Append(s, x)) = Len(s) + 1
         /\ Len(s) + 1 \notin Marks(s)
         /\ Marks(Append(s, x)) =
              IF Lower(x) \in Kept THEN Marks(s) \cup {Len(s) + 1} ELSE Marks(s)
         /\ \A i \in Marks(s) : Append(s, x)[i] = s[i]
         /\ Append(s, x)[Len(s) + 1] = x
<1>1. /\ Append(s, x) \in Seq(Chars) /\ Len(Append(s, x)) = Len(s) + 1
      /\ \A i \in 1 .. Len(s) : Append(s, x)[i] = s[i]
      /\ Append(s, x)[Len(s) + 1] = x /\ Len(s) \in Nat
      /\ DOMAIN s = 1 .. Len(s) /\ DOMAIN Append(s, x) = 1 .. Len(s) + 1
  OBVIOUS
<1>2. 1 .. Len(s) + 1 = 1 .. Len(s) \cup {Len(s) + 1} /\ Len(s) + 1 \notin 1 .. Len(s)
  BY <1>1
<1>3. ASSUME NEW i \in 1 .. Len(s)
      PROVE  i \in Marks(Append(s, x)) <=> i \in Marks(s)
  BY <1>1, <1>2 DEF Marks
<1>4. Len(s) + 1 \in Marks(Append(s, x)) <=> Lower(x) \in Kept
  BY <1>1, <1>2 DEF Marks
<1>5. Marks(s) \subseteq 1 .. Len(s) /\ Marks(Append(s, x)) \subseteq 1 .. Len(s) \cup {Len(s) + 1}
  BY <1>1, <1>2 DEF Marks
<1>6. Marks(Append(s, x)) =
        IF Lower(x) \in Kept THEN Marks(s) \cup {Len(s) + 1} ELSE Marks(s)
  <2>1. Lower(x) \in Kept => Marks(Append(s, x)) = Marks(s) \cup {Len(s) + 1}
    BY <1>3, <1>4, <1>5
  <2>2. Lower(x) \notin Kept => Marks(Append(s, x)) = Marks(s)
    BY <1>2, <1>3, <1>4, <1>5
  <2>. QED BY <2>1, <2>2
<1>. QED BY <1>1, <1>2, <1>5, <1>6

\* One more letter or digit puts itself at the end, after the hyphen that is
\* due; any other character puts nothing.
LEMMA JoinedAppend ==
  ASSUME NEW s \in Seq(Chars), NEW x \in Chars
  PROVE  Joined(Append(s, x)) =
           IF Lower(x) \in Kept
             THEN Joined(s) \o ((IF Due(s) THEN <<"-">> ELSE <<>>) \o <<Lower(x)>>)
             ELSE Joined(s)
<1>. DEFINE t == Append(s, x)
            n == Len(s)
            c == Cardinality(Marks(s))
            place == Ordered(Marks(s))
            parts == [i \in 1 .. c |-> Part(s, place, i)]
            d == Cardinality(Marks(t))
            after == Ordered(Marks(t))
            all == [i \in 1 .. d |-> Part(t, after, i)]
<1>1. /\ t \in Seq(Chars) /\ n + 1 \notin Marks(s)
      /\ Marks(t) = IF Lower(x) \in Kept THEN Marks(s) \cup {n + 1} ELSE Marks(s)
      /\ \A i \in Marks(s) : t[i] = s[i]
      /\ t[n + 1] = x
  BY MarksAppend
<1>2. n \in Nat /\ Marks(s) \subseteq 1 .. n /\ Marks(s) \subseteq Nat
  BY MarksType
<1>3. /\ c \in Nat /\ Lists(place, c, Marks(s))
      /\ parts \in [1 .. c -> Pieces] /\ Joined(s) = FlattenSeq(parts)
  BY JoinedParts
<1>4. /\ d \in Nat /\ all \in [1 .. d -> Pieces] /\ Joined(t) = FlattenSeq(all)
  <2>. HIDE DEF t
  <2>. QED BY <1>1, JoinedParts
<1>5. /\ place \in [1 .. c -> Marks(s)]
      /\ \A i, j \in 1 .. c : i < j => place[i] < place[j]
      /\ \A m \in Marks(s) : \E i \in 1 .. c : place[i] = m
  BY <1>3 DEF Lists
<1>6. CASE Lower(x) \notin Kept
  <2>1. Marks(t) = Marks(s)
    BY <1>1, <1>6
  <2>2. d = c /\ after = place
    BY <2>1
  <2>3. ASSUME NEW i \in 1 .. c
        PROVE  Part(t, place, i) = Part(s, place, i)
    BY <1>1, <1>5 DEF Part
  <2>4. all = parts
    <3>. HIDE DEF c, place, d, after, t
    <3>. QED BY <2>2, <2>3
  <2>. QED BY <1>3, <1>4, <1>6, <2>4
<1>7. CASE Lower(x) \in Kept
  <2>1. Marks(t) = Marks(s) \cup {n + 1}
    BY <1>1, <1>7
  <2>2. /\ d = c + 1
        /\ \A i \in 1 .. c + 1 : after[i] = IF i = c + 1 THEN n + 1 ELSE place[i]
    <3>. HIDE DEF t, n
    <3>1. /\ Cardinality(Marks(s) \cup {n + 1}) = Cardinality(Marks(s)) + 1
          /\ \A i \in 1 .. Cardinality(Marks(s)) + 1 : Ordered(Marks(s) \cup {n + 1})[i] =
                IF i = Cardinality(Marks(s)) + 1 THEN n + 1 ELSE Ordered(Marks(s))[i]
      BY <1>2, OrderedAppend
    <3>2. d = Cardinality(Marks(s) \cup {n + 1}) /\ after = Ordered(Marks(s) \cup {n + 1})
      BY <2>1
    <3>. HIDE DEF d, after
    <3>. QED BY <3>1, <3>2
  <2>. HIDE DEF c, place, d, after, t, n
  <2>3. ASSUME NEW i \in 1 .. c
        PROVE  all[i] = parts[i]
    <3>1. i \in 1 .. d /\ i \in 1 .. c + 1 /\ i # c + 1
      BY <1>3, <2>2
    <3>2. after[i] = place[i] /\ place[i] \in Marks(s)
      BY <1>5, <2>2, <3>1
    <3>3. i > 1 => after[i - 1] = place[i - 1]
      <4>1. i > 1 => i - 1 \in 1 .. c + 1 /\ i - 1 # c + 1
        BY <1>3
      <4>. QED BY <2>2, <4>1
    <3>4. Part(t, after, i) = Part(s, place, i)
      BY <1>1, <3>2, <3>3 DEF Part
    <3>. QED BY <3>1, <3>4
  <2>4. all[c + 1] = (IF Due(s) THEN <<"-">> ELSE <<>>) \o <<Lower(x)>>
    <3>1. c + 1 \in 1 .. d /\ c + 1 \in 1 .. c + 1
      BY <1>3, <2>2
    <3>2. after[c + 1] = n + 1
      BY <2>2, <3>1
    <3>3. (c + 1 > 1 /\ n + 1 > after[(c + 1) - 1] + 1) <=> Due(s)
      <4>1. CASE c = 0
        <5>1. Marks(s) = {}
          BY <1>5, <4>1
        <5>. QED BY <4>1, <5>1 DEF Due
      <4>2. CASE c # 0
        <5>1. c \in 1 .. c /\ c \in 1 .. c + 1 /\ c # c + 1 /\ (c + 1) - 1 = c /\ c + 1 > 1
          BY <1>3, <4>2
        <5>2. after[(c + 1) - 1] = place[c] /\ place[c] \in Marks(s)
          BY <1>5, <2>2, <5>1
        <5>3. place[c] \in 1 .. n
          BY <1>2, <5>2
        <5>4. n \in Marks(s) => place[c] = n
          <6>1. ASSUME NEW i \in 1 .. c, place[i] = n
                PROVE  place[c] = n
            <7>1. CASE i = c
              BY <6>1, <7>1
            <7>2. CASE i # c
              <8>1. i < c
                BY <1>3, <7>2
              <8>2. place[i] < place[c]
                BY <1>5, <5>1, <8>1
              <8>. QED BY <1>2, <5>3, <6>1, <8>2
            <7>. QED BY <7>1, <7>2
          <6>. QED BY <1>5, <6>1
        <5>5. Due(s) <=> place[c] # n
          BY <5>2, <5>4 DEF Due, n
        <5>. QED BY <1>2, <5>1, <5>2, <5>3, <5>5
      <4>. QED BY <4>1, <4>2
    <3>4. all[c + 1] = Part(t, after, c + 1)
      BY <3>1
    <3>5. t[after[c + 1]] = x
      BY <1>1, <3>2
    <3>6. Part(t, after, c + 1) =
            (IF c + 1 > 1 /\ n + 1 > after[(c + 1) - 1] + 1 THEN <<"-">> ELSE <<>>) \o <<Lower(x)>>
      BY <3>2, <3>5 DEF Part
    <3>. HIDE DEF all
    <3>. QED BY <3>3, <3>4, <3>6
  <2>5. all \in [1 .. c + 1 -> Pieces]
    <3>. HIDE DEF all
    <3>. QED BY <1>4, <2>2
  <2>6. FlattenSeq(all) = FlattenSeq(parts) \o all[c + 1]
    <3>. HIDE DEF all, parts
    <3>. QED BY <1>3, <2>3, <2>5, FlattenAppend
  <2>. HIDE DEF all, parts
  <2>. QED BY <1>3, <1>4, <1>7, <2>4, <2>6 DEF t
<1>. QED BY <1>6, <1>7

\* A hyphen is due after another character, once there was a letter or digit.
LEMMA DueAppend ==
  ASSUME NEW s \in Seq(Chars), NEW x \in Chars
  PROVE  /\ Marks(Append(s, x)) = {} <=> Marks(s) = {} /\ Lower(x) \notin Kept
         /\ Due(Append(s, x)) <=> Marks(s) # {} /\ Lower(x) \notin Kept
<1>1. /\ Len(Append(s, x)) = Len(s) + 1 /\ Len(s) + 1 \notin Marks(s)
      /\ Marks(Append(s, x)) =
           IF Lower(x) \in Kept THEN Marks(s) \cup {Len(s) + 1} ELSE Marks(s)
  BY MarksAppend
<1>2. CASE Lower(x) \in Kept
  BY <1>1, <1>2 DEF Due
<1>3. CASE Lower(x) \notin Kept
  BY <1>1, <1>3 DEF Due
<1>. QED BY <1>2, <1>3

\* An empty text gives nothing.
LEMMA NothingJoined ==
  /\ Joined(<<>>) = <<>> /\ Marks(<<>>) = {} /\ ~Due(<<>>)
<1>1. <<>> \in Seq(Chars) /\ Marks(<<>>) = {}
  BY DEF Marks
<1>2. Cardinality(Marks(<<>>)) = 0
  BY <1>1, FS_EmptySet
<1>. DEFINE place == Ordered(Marks(<<>>))
            parts == [i \in 1 .. 0 |-> Part(<<>>, place, i)]
<1>3. Joined(<<>>) = FlattenSeq(parts)
  BY <1>1, <1>2, JoinedParts
<1>4. parts = <<>> /\ Len(parts) = 0
  OBVIOUS
<1>. HIDE DEF parts
<1>5. FlattenSeq(parts) = <<>>
  BY <1>4 DEF FlattenSeq
<1>. QED BY <1>1, <1>3, <1>5 DEF Due

\* A text one character longer.
LEMMA Longer ==
  ASSUME NEW s \in Seq(Chars), NEW m \in 1 .. Len(s), NEW i \in m .. Len(s)
  PROVE  /\ SubSeq(s, m, i - 1) \in Seq(Chars) /\ s[i] \in Chars
         /\ SubSeq(s, m, i) = Append(SubSeq(s, m, i - 1), s[i])
<1>1. Len(s) \in Nat /\ m \in Int /\ i - 1 \in Int /\ i \in 1 .. Len(s)
  OBVIOUS
<1>2. \A k \in m .. i - 1 : s[k] \in Chars
  BY <1>1
<1>3. SubSeq(s, m, i - 1) \in Seq(Chars) /\ s[i] \in Chars
  BY <1>1, <1>2, SubSeqProperties
<1>4. SubSeq(s, m, i) = SubSeq(s, m, i - 1) \o <<s[i]>>
  BY SubSeqRecursiveSecond
<1>5. Append(SubSeq(s, m, i - 1), s[i]) = SubSeq(s, m, i - 1) \o <<s[i]>>
  BY <1>3, AppendIsConcat
<1>. QED BY <1>3, <1>4, <1>5

\* A text up to its character i.
UpToChar(s, i) == SubSeq(s, 1, i)

\* From the empty text to the whole one, a character at a time.
LEMMA UpToCharGrows ==
  ASSUME NEW s \in Seq(Chars)
  PROVE  /\ UpToChar(s, 0) = <<>> /\ UpToChar(s, Len(s)) = s
         /\ \A i \in 1 .. Len(s) :
              /\ UpToChar(s, i - 1) \in Seq(Chars) /\ s[i] \in Chars
              /\ UpToChar(s, i) = Append(UpToChar(s, i - 1), s[i])
<1>1. UpToChar(s, 0) = <<>>
  BY SubSeqEmpty DEF UpToChar
<1>2. UpToChar(s, Len(s)) = s
  BY SubSeqFull DEF UpToChar
<1>3. ASSUME NEW i \in 1 .. Len(s)
      PROVE  /\ UpToChar(s, i - 1) \in Seq(Chars) /\ s[i] \in Chars
             /\ UpToChar(s, i) = Append(UpToChar(s, i - 1), s[i])
  <2>1. 1 \in 1 .. Len(s)
    OBVIOUS
  <2>. QED BY <2>1, Longer DEF UpToChar
<1>. QED BY <1>1, <1>2, <1>3

\* Joined begins and ends with a letter or digit.
Ends(b) == b = <<>> \/ (b[1] \in Kept /\ b[Len(b)] \in Kept)

\* Joined is text of a token, has no hyphen at its ends, and is empty only
\* for a text without letters and digits.
LEMMA JoinedEnds ==
  ASSUME NEW s \in Seq(Chars)
  PROVE  /\ Joined(s) \in Pieces /\ Ends(Joined(s))
         /\ Joined(s) = <<>> <=> Marks(s) = {}
<1>. DEFINE P(t) == /\ Joined(t) \in Pieces /\ Ends(Joined(t))
                    /\ Joined(t) = <<>> <=> Marks(t) = {}
            S == {i \in 0 .. Len(s) : P(UpToChar(s, i))}
<1>1. Len(s) \in Nat
  OBVIOUS
<1>2. 0 \in S
  <2>1. P(<<>>)
    BY NothingJoined, PiecesJoin DEF Ends
  <2>2. 0 \in 0 .. Len(s)
    BY <1>1
  <2>. HIDE DEF P
  <2>. QED BY <2>1, <2>2, UpToCharGrows
<1>3. ASSUME NEW t \in Seq(Chars), NEW x \in Chars, P(t)
      PROVE  P(Append(t, x))
  <2>1. CASE Lower(x) \notin Kept
    BY <1>3, <2>1, JoinedAppend, DueAppend
  <2>2. CASE Lower(x) \in Kept
    <3>. DEFINE b == Joined(t)
                c == Lower(x)
    <3>1. b \in Seq(TokenChars) /\ c \in TokenChars /\ "-" \in TokenChars
      BY <1>3, <2>2 DEF Pieces, TokenChars
    <3>2. Joined(Append(t, x)) = b \o ((IF Due(t) THEN <<"-">> ELSE <<>>) \o <<c>>)
      BY <2>2, JoinedAppend
    <3>3. Due(t) => b # <<>>
      BY <1>3 DEF Due
    <3>4. Ends(b)
      BY <1>3
    <3>. HIDE DEF b, c
    <3>. DEFINE j == b \o ((IF Due(t) THEN <<"-">> ELSE <<>>) \o <<c>>)
    <3>5. j \in Seq(TokenChars) /\ j # <<>> /\ j[Len(j)] = c
      BY <3>1
    <3>6. b = <<>> => j = <<c>>
      <4>1. <<c>> \in Seq(TokenChars)
        BY <3>1
      <4>2. <<>> \o (<<>> \o <<c>>) = <<c>>
        BY <4>1, ConcatEmptySeq
      <4>. QED BY <3>3, <4>2
    <3>7. b # <<>> => j[1] = b[1]
      BY <3>1
    <3>. HIDE DEF j
    <3>8. Ends(j)
      <4>1. CASE b = <<>>
        BY <2>2, <3>5, <3>6, <4>1 DEF Ends, c
      <4>2. CASE b # <<>>
        BY <2>2, <3>4, <3>5, <3>7, <4>2 DEF Ends, c
      <4>. QED BY <4>1, <4>2
    <3>9. Joined(Append(t, x)) = j
      BY <3>2 DEF j
    <3>10. Marks(Append(t, x)) # {}
      BY <2>2, DueAppend
    <3>. QED BY <3>5, <3>8, <3>9, <3>10 DEF Pieces
  <2>. QED BY <2>1, <2>2
<1>4. ASSUME NEW i \in 1 .. Len(s), i - 1 \in S
      PROVE  i \in S
  <2>. HIDE DEF P
  <2>1. P(UpToChar(s, i - 1)) /\ i \in 0 .. Len(s)
    BY <1>4
  <2>2. /\ UpToChar(s, i - 1) \in Seq(Chars) /\ s[i] \in Chars
        /\ UpToChar(s, i) = Append(UpToChar(s, i - 1), s[i])
    BY UpToCharGrows
  <2>3. P(UpToChar(s, i))
    BY <1>3, <2>1, <2>2
  <2>. QED BY <2>1, <2>3
<1>5. Len(s) \in S
  <2>1. 0 .. Len(s) \subseteq S
    <3>. HIDE DEF S
    <3>. QED BY <1>1, <1>2, <1>4, UpTo
  <2>2. Len(s) \in 0 .. Len(s)
    BY <1>1
  <2>. HIDE DEF S
  <2>. QED BY <2>1, <2>2
<1>. HIDE DEF P
<1>6. P(s)
  BY <1>5, UpToCharGrows
<1>. QED BY <1>6 DEF P

\* What the loop writes: a hyphen is put before it is known to be due.
LEMMA WrittenJoined ==
  ASSUME NEW s \in Seq(Chars)
  PROVE  Written(s) = Joined(s) \o (IF Due(s) THEN <<"-">> ELSE <<>>)
<1>. DEFINE With(t) == Joined(t) \o (IF Due(t) THEN <<"-">> ELSE <<>>)
<1>1. Len(s) \in Nat
  OBVIOUS
<1>2. PICK w \in [0 .. Len(s) -> Seq(TokenChars)] :
         /\ w[0] = <<>> /\ Written(s) = w[Len(s)]
         /\ \A i \in 1 .. Len(s) : w[i] = Put(w[i - 1], Lower(s[i]))
  BY WrittenSteps
<1>3. ASSUME NEW t \in Seq(Chars), NEW x \in Chars
      PROVE  Put(With(t), Lower(x)) = With(Append(t, x))
  <2>. DEFINE b == Joined(t)
              c == Lower(x)
              h == IF Due(t) THEN <<"-">> ELSE <<>>
  <2>1. /\ b \in Seq(TokenChars) /\ Ends(b)
        /\ b = <<>> <=> Marks(t) = {}
        /\ Due(t) => Marks(t) # {}
    BY JoinedEnds DEF Pieces, Due
  <2>2. "-" \in TokenChars /\ "-" \notin Kept /\ h \in Seq(TokenChars)
    <3>1. "-" \in TokenChars /\ "-" \notin Kept
      BY DEF TokenChars, Kept
    <3>2. <<"-">> \in Seq(TokenChars) /\ <<>> \in Seq(TokenChars)
      BY <3>1
    <3>. QED BY <3>1, <3>2
  <2>3. CASE c \in Kept
    <3>1. Joined(Append(t, x)) = b \o (h \o <<c>>) /\ ~Due(Append(t, x))
      BY <2>3, JoinedAppend, DueAppend
    <3>2. c \in TokenChars
      BY <2>3 DEF TokenChars
    <3>3. Put(b \o h, c) = Append(b \o h, c)
      BY <2>3 DEF Put
    <3>. HIDE DEF b, c, h
    <3>4. Append(b \o h, c) = b \o (h \o <<c>>) /\ b \o (h \o <<c>>) \in Seq(TokenChars)
      <4>1. <<c>> \in Seq(TokenChars)
        BY <3>2
      <4>2. b \o h \in Seq(TokenChars) /\ h \o <<c>> \in Seq(TokenChars)
        BY <2>1, <2>2, <4>1, ConcatProperties
      <4>3. Append(b \o h, c) = (b \o h) \o <<c>>
        BY <3>2, <4>2, AppendIsConcat
      <4>4. (b \o h) \o <<c>> = b \o (h \o <<c>>)
        BY <2>1, <2>2, <4>1, ConcatAssociative
      <4>5. b \o (h \o <<c>>) \in Seq(TokenChars)
        BY <2>1, <4>2, ConcatProperties
      <4>. QED BY <4>3, <4>4, <4>5
    <3>5. With(Append(t, x)) = b \o (h \o <<c>>)
      BY <3>1, <3>4, ConcatEmptySeq
    <3>. QED BY <3>3, <3>4, <3>5 DEF b, c, h
  <2>4. CASE c \notin Kept /\ b = <<>>
    <3>1. Joined(Append(t, x)) = <<>> /\ ~Due(Append(t, x)) /\ h = <<>>
      <4>1. Joined(Append(t, x)) = Joined(t)
        BY <2>4, JoinedAppend
      <4>2. ~Due(Append(t, x))
        BY <2>1, <2>4, DueAppend
      <4>3. ~Due(t)
        BY <2>1, <2>4
      <4>. QED BY <2>4, <4>1, <4>2, <4>3
    <3>2. With(Append(t, x)) = <<>> /\ With(t) = <<>>
      BY <2>4, <3>1
    <3>. QED BY <2>4, <3>2 DEF Put
  <2>5. CASE c \notin Kept /\ b # <<>>
    <3>1. Joined(Append(t, x)) = b /\ Due(Append(t, x))
      BY <2>1, <2>5, JoinedAppend, DueAppend
    <3>2. With(Append(t, x)) = b \o <<"-">>
      BY <3>1
    <3>3. CASE Due(t)
      <4>1. With(t) = b \o <<"-">>
        BY <3>3
      <4>2. (b \o <<"-">>) # <<>> /\ Last(b \o <<"-">>) = "-"
        <5>. HIDE DEF b
        <5>. QED BY <2>1, <2>2 DEF Last
      <4>. HIDE DEF With
      <4>. QED BY <2>5, <3>2, <4>1, <4>2 DEF Put
    <3>4. CASE ~Due(t)
      <4>1. With(t) = b
        BY <2>1, <3>4, ConcatEmptySeq
      <4>2. b # <<>> /\ Last(b) # "-"
        <5>. HIDE DEF b, c, h
        <5>1. b # <<>> /\ b[Len(b)] \in Kept
          BY <2>1, <2>5 DEF Ends
        <5>. QED BY <2>2, <5>1 DEF Last
      <4>3. Put(b, c) = Append(b, "-")
        <5>. HIDE DEF b, c
        <5>. QED BY <2>5, <4>2 DEF Put
      <4>4. Append(b, "-") = b \o <<"-">>
        <5>. HIDE DEF b, c, h
        <5>. QED BY <2>1, <2>2, AppendIsConcat
      <4>. HIDE DEF With
      <4>. QED BY <3>2, <4>1, <4>3, <4>4
    <3>. QED BY <3>3, <3>4
  <2>. QED BY <2>3, <2>4, <2>5
<1>. DEFINE S == {i \in 0 .. Len(s) : w[i] = With(UpToChar(s, i))}
<1>4. 0 \in S
  <2>1. With(<<>>) = <<>>
    BY NothingJoined
  <2>2. 0 \in 0 .. Len(s)
    BY <1>1
  <2>. HIDE DEF With
  <2>. QED BY <1>2, <2>1, <2>2, UpToCharGrows
<1>. HIDE DEF With
<1>5. ASSUME NEW i \in 1 .. Len(s), i - 1 \in S
      PROVE  i \in S
  <2>1. w[i - 1] = With(UpToChar(s, i - 1)) /\ i \in 0 .. Len(s)
    BY <1>5
  <2>2. w[i] = Put(w[i - 1], Lower(s[i]))
    BY <1>2
  <2>3. /\ UpToChar(s, i - 1) \in Seq(Chars) /\ s[i] \in Chars
        /\ UpToChar(s, i) = Append(UpToChar(s, i - 1), s[i])
    BY UpToCharGrows
  <2>4. w[i] = With(UpToChar(s, i))
    BY <1>3, <2>1, <2>2, <2>3
  <2>. QED BY <2>1, <2>4
<1>6. Len(s) \in S
  <2>1. 0 .. Len(s) \subseteq S
    <3>. HIDE DEF S
    <3>. QED BY <1>1, <1>4, <1>5, UpTo
  <2>2. Len(s) \in 0 .. Len(s)
    BY <1>1
  <2>. HIDE DEF S
  <2>. QED BY <2>1, <2>2
<1>. QED BY <1>2, <1>6, UpToCharGrows DEF With

\* A hyphen at the end is trimmed off, and nothing else is.
LEMMA TrimJoined ==
  ASSUME NEW b \in Seq(TokenChars), Ends(b), NEW h \in {<<>>, <<"-">>}, b = <<>> => h = <<>>
  PROVE  Trim(b \o h, {"-"}) = b
<1>. DEFINE u == b \o h
            n == Len(b)
<1>1. "-" \in TokenChars /\ "-" \notin Kept
  BY DEF TokenChars, Kept
<1>2. h \in Seq(TokenChars) /\ (\A i \in 1 .. Len(h) : h[i] = "-") /\ Len(h) \in {0, 1}
  <2>1. CASE h = <<>>
    BY <2>1
  <2>2. CASE h = <<"-">>
    BY <1>1, <2>2
  <2>. QED BY <2>1, <2>2
<1>3. /\ u \in Seq(TokenChars) /\ Len(u) = n + Len(h) /\ n \in Nat
      /\ \A i \in 1 .. n + Len(h) : u[i] = IF i <= n THEN b[i] ELSE h[i - n]
  BY <1>2, ConcatProperties
<1>. HIDE DEF u
<1>4. \A i \in 1 .. n : u[i] = b[i] /\ i \in 1 .. Len(u)
  BY <1>2, <1>3
<1>5. \A i \in 1 .. Len(u) : i > n => u[i] = "-"
  <2>1. ASSUME NEW i \in 1 .. Len(u), i > n
        PROVE  u[i] = "-"
    <3>1. i - n \in 1 .. Len(h) /\ i \in 1 .. n + Len(h) /\ ~(i <= n)
      BY <1>2, <1>3, <2>1
    <3>. QED BY <1>2, <1>3, <3>1
  <2>. QED BY <2>1
<1>6. CASE b = <<>>
  <2>1. u = <<>>
    BY <1>6, ConcatEmptySeq DEF u
  <2>2. Trim(<<>>, {"-"}) = <<>>
    BY DEF Trim
  <2>. QED BY <1>6, <2>1, <2>2 DEF u
<1>7. CASE b # <<>>
  <2>1. n \in 1 .. n /\ 1 \in 1 .. n
    BY <1>3, <1>7
  <2>2. u[1] \notin {"-"} /\ u[n] \notin {"-"}
    BY <1>1, <1>4, <1>7, <2>1 DEF Ends
  <2>3. PICK m \in 1 .. Len(u), k \in 1 .. Len(u) :
           /\ m <= k /\ u[m] \notin {"-"} /\ u[k] \notin {"-"}
           /\ \A i \in 1 .. Len(u) : u[i] \notin {"-"} => m <= i /\ i <= k
           /\ Trim(u, {"-"}) = SubSeq(u, m, k)
    <3>1. ~\A i \in 1 .. Len(u) : u[i] \in {"-"}
      BY <1>4, <2>1, <2>2
    <3>. QED BY <1>3, <3>1, Trimmed
  <2>4. m = 1
    BY <1>3, <1>4, <2>1, <2>2, <2>3
  <2>5. n <= k
    BY <1>4, <2>1, <2>2, <2>3
  <2>6. ~(k > n)
    BY <1>5, <2>3
  <2>7. k = n
    BY <1>3, <2>5, <2>6
  <2>8. SubSeq(u, 1, n) = b
    <3>1. \A i \in 1 .. n : u[i] \in TokenChars
      BY <1>4
    <3>2. /\ SubSeq(u, 1, n) \in Seq(TokenChars) /\ Len(SubSeq(u, 1, n)) = n
          /\ \A i \in 1 .. n : SubSeq(u, 1, n)[i] = u[i]
      <4>1. /\ SubSeq(u, 1, n) \in Seq(TokenChars)
            /\ Len(SubSeq(u, 1, n)) = IF 1 <= n THEN n - 1 + 1 ELSE 0
            /\ \A i \in 1 .. n - 1 + 1 : SubSeq(u, 1, n)[i] = u[1 + i - 1]
        BY <1>3, <3>1, SubSeqProperties
      <4>2. 1 <= n /\ n - 1 + 1 = n /\ \A i \in 1 .. n : 1 + i - 1 = i
        BY <1>3, <2>1
      <4>. QED BY <4>1, <4>2
    <3>. QED BY <1>4, <3>2, SeqEqual
  <2>. QED BY <2>3, <2>4, <2>7, <2>8 DEF u
<1>. QED BY <1>6, <1>7

\* Two texts that Joined goes on with in the same way.
Alike(s, t) ==
  Joined(s) = Joined(t) /\ (Marks(s) = {} <=> Marks(t) = {}) /\ (Due(s) <=> Due(t))

\* They do so after any further character.
LEMMA AlikeAppend ==
  ASSUME NEW s \in Seq(Chars), NEW t \in Seq(Chars), NEW x \in Chars, Alike(s, t)
  PROVE  Alike(Append(s, x), Append(t, x))
<1>1. /\ Joined(s) = Joined(t)
      /\ Marks(s) = {} <=> Marks(t) = {}
      /\ Due(s) <=> Due(t)
  BY DEF Alike
<1>2. Joined(Append(s, x)) = Joined(Append(t, x))
  BY <1>1, JoinedAppend
<1>3. /\ Marks(Append(s, x)) = {} <=> Marks(Append(t, x)) = {}
      /\ Due(Append(s, x)) <=> Due(Append(t, x))
  BY <1>1, DueAppend
<1>. QED BY <1>2, <1>3 DEF Alike

\* White space at either end changes nothing.
LEMMA BlankJoined ==
  Lower(" ") \notin Kept
BY DEF Lower, Kept

\* TrimSpace drops blanks at both ends: the beginning leaves Joined where it
\* is, and so does the end.
LEMMA TrimBlank ==
  ASSUME NEW v \in Seq(Chars)
  PROVE  Joined(Trim(v, {" "})) = Joined(v)
<1>1. Len(v) \in Nat /\ DOMAIN v = 1 .. Len(v)
  OBVIOUS
<1>2. CASE Trim(v, {" "}) = <<>> /\ \A i \in 1 .. Len(v) : v[i] \in {" "}
  <2>1. Marks(v) = {}
    BY <1>1, <1>2, BlankJoined DEF Marks
  <2>. QED BY <1>2, <2>1, NothingJoined, JoinedEnds
<1>3. ASSUME NEW m \in 1 .. Len(v), NEW n \in 1 .. Len(v),
             m <= n, v[m] \notin {" "}, v[n] \notin {" "},
             \A k \in 1 .. Len(v) : v[k] \notin {" "} => m <= k /\ k <= n,
             Trim(v, {" "}) = SubSeq(v, m, n)
      PROVE  Joined(Trim(v, {" "})) = Joined(v)
  <2>. DEFINE From(i) == SubSeq(v, m, i)
              S == {i \in 0 .. n : Alike(UpToChar(v, i), From(i))}
              T == {i \in 0 .. Len(v) : i >= n => Joined(UpToChar(v, i)) = Joined(UpToChar(v, n))}
  <2>1. 0 \in S
    <3>1. From(0) = <<>>
      BY SubSeqEmpty
    <3>2. 0 \in 0 .. n
      BY <1>1
    <3>. HIDE DEF From
    <3>. QED BY <3>1, <3>2, UpToCharGrows DEF Alike
  <2>2. ASSUME NEW i \in 1 .. n, i - 1 \in S
        PROVE  i \in S
    <3>1. i \in 1 .. Len(v) /\ i \in 0 .. n /\ i \in Int /\ i - 1 \in Int /\ m \in Int
      BY <1>1
    <3>2. /\ UpToChar(v, i - 1) \in Seq(Chars) /\ v[i] \in Chars
          /\ UpToChar(v, i) = Append(UpToChar(v, i - 1), v[i])
      BY <3>1, UpToCharGrows
    <3>3. Alike(UpToChar(v, i - 1), From(i - 1))
      BY <2>2
    <3>4. CASE i >= m
      <4>1. i \in m .. Len(v)
        BY <3>1, <3>4
      <4>2. From(i - 1) \in Seq(Chars) /\ From(i) = Append(From(i - 1), v[i])
        BY <4>1, Longer
      <4>. HIDE DEF From
      <4>3. Alike(UpToChar(v, i), From(i))
        BY <3>2, <3>3, <4>2, AlikeAppend
      <4>. QED BY <3>1, <4>3
    <3>5. CASE i < m
      <4>1. From(i) = <<>> /\ From(i - 1) = <<>>
        <5>1. i < m /\ i - 1 < m
          BY <3>1, <3>5
        <5>. QED BY <3>1, <5>1, SubSeqEmpty
      <4>2. v[i] = " "
        <5>1. v[i] \notin {" "} => m <= i
          BY <1>3, <3>1
        <5>2. ~(m <= i)
          BY <3>1, <3>5
        <5>. QED BY <5>1, <5>2
      <4>. HIDE DEF From
      <4>3. /\ Joined(UpToChar(v, i - 1)) = <<>> /\ Marks(UpToChar(v, i - 1)) = {}
            /\ ~Due(UpToChar(v, i - 1))
        BY <3>3, <4>1, NothingJoined DEF Alike
      <4>4. /\ Joined(UpToChar(v, i)) = <<>> /\ Marks(UpToChar(v, i)) = {}
            /\ ~Due(UpToChar(v, i))
        BY <3>2, <4>2, <4>3, BlankJoined, JoinedAppend, DueAppend
      <4>5. Alike(UpToChar(v, i), From(i))
        BY <4>1, <4>4, NothingJoined DEF Alike
      <4>. QED BY <3>1, <4>5
    <3>. QED BY <3>1, <3>4, <3>5
  <2>3. Joined(UpToChar(v, n)) = Joined(From(n))
    <3>1. 0 .. n \subseteq S
      <4>1. n \in Nat
        BY <1>1
      <4>. HIDE DEF S
      <4>. QED BY <2>1, <2>2, <4>1, UpTo
    <3>2. n \in 0 .. n
      BY <1>1
    <3>3. n \in S
      <4>. HIDE DEF S
      <4>. QED BY <3>1, <3>2
    <3>. HIDE DEF From
    <3>. QED BY <3>3 DEF Alike
  <2>4. 0 \in T
    BY <1>1
  <2>5. ASSUME NEW i \in 1 .. Len(v), i - 1 \in T
        PROVE  i \in T
    <3>1. i \in 0 .. Len(v) /\ i \in Nat /\ n \in Nat
      BY <1>1
    <3>2. CASE i <= n
      BY <3>1, <3>2
    <3>3. CASE i > n
      <4>1. v[i] = " " /\ i - 1 >= n
        <5>1. v[i] \notin {" "} => i <= n
          BY <1>3
        <5>2. ~(i <= n) /\ i - 1 >= n
          BY <3>1, <3>3
        <5>. QED BY <5>1, <5>2
      <4>2. /\ UpToChar(v, i - 1) \in Seq(Chars) /\ v[i] \in Chars
            /\ UpToChar(v, i) = Append(UpToChar(v, i - 1), v[i])
        BY UpToCharGrows
      <4>3. Joined(UpToChar(v, i)) = Joined(UpToChar(v, i - 1))
        BY <4>1, <4>2, BlankJoined, JoinedAppend
      <4>. QED BY <2>5, <3>1, <4>1, <4>3
    <3>. QED BY <3>1, <3>2, <3>3
  <2>6. Joined(UpToChar(v, Len(v))) = Joined(UpToChar(v, n))
    <3>1. 0 .. Len(v) \subseteq T
      <4>. HIDE DEF T
      <4>. QED BY <1>1, <2>4, <2>5, UpTo
    <3>2. Len(v) \in 0 .. Len(v) /\ Len(v) >= n
      BY <1>1
    <3>3. Len(v) \in T
      <4>. HIDE DEF T
      <4>. QED BY <3>1, <3>2
    <3>. QED BY <3>2, <3>3
  <2>. QED BY <1>3, <2>3, <2>6, UpToCharGrows
<1>4. \/ Trim(v, {" "}) = <<>> /\ \A i \in 1 .. Len(v) : v[i] \in {" "}
      \/ \E m, n \in 1 .. Len(v) :
           /\ m <= n /\ v[m] \notin {" "} /\ v[n] \notin {" "}
           /\ \A k \in 1 .. Len(v) : v[k] \notin {" "} => m <= k /\ k <= n
           /\ Trim(v, {" "}) = SubSeq(v, m, n)
  BY Trimmed
<1>. QED BY <1>2, <1>3, <1>4

\* Written is Joined with the hyphen that was due, Trim takes it away, and Cut
\* does the rest.
LEMMA TokenIsJoinedHolds ==
  ASSUME left \in Seq(Chars)
  PROVE  TokenIsJoined
<1>. DEFINE t == Trim(left, {" "})
            b == Joined(left)
<1>1. t \in Seq(Chars) /\ Joined(t) = b
  BY TrimType, TrimBlank
<1>2. b \in Seq(TokenChars) /\ Ends(b)
  BY JoinedEnds DEF Pieces
<1>3. Written(t) = b \o (IF Due(t) THEN <<"-">> ELSE <<>>)
  <2>. HIDE DEF t
  <2>. QED BY <1>1, WrittenJoined
<1>4. b = <<>> => ~Due(t)
  <2>. HIDE DEF t
  <2>. QED BY <1>1, JoinedEnds DEF Due
<1>5. Trim(Written(t), {"-"}) = b
  <2>. HIDE DEF t, b
  <2>. QED BY <1>2, <1>3, <1>4, TrimJoined
<1>6. safePathToken(left) = Cut(b)
  BY <1>5 DEF safePathToken
<1>7. SubSeq(b, 1, Len(b)) = b /\ Len(b) \in Nat /\ TokenLen \in Nat
  BY <1>2, SubSeqFull, NamesAssumption
<1>8. Cut(b) = IF b = <<>> THEN <<"r", "e", "f">>
               ELSE SubSeq(b, 1, IF Len(b) > TokenLen THEN TokenLen ELSE Len(b))
  <2>. HIDE DEF b
  <2>. QED BY <1>7 DEF Cut
<1>. QED BY <1>6, <1>8 DEF TokenIsJoined

-----------------------------------------------------------------------------
(* The specification.                                                      *)

\* What Type and Write keep.
TextsTyped ==
  /\ left \in Seq(Chars) /\ right \in Seq(Chars)
  /\ at \in Times
  /\ lines \in Seq(Line)

\* A typed character keeps the types of the refs.
LEMMA TypeKeeps ==
  ASSUME TextsTyped, Type
  PROVE  left' \in Seq(Chars) /\ right' \in Seq(Chars) /\ at' \in Times
<1>1. left \in Seq(Chars) /\ right \in Seq(Chars) /\ at \in Times
  BY DEF TextsTyped
<1>2. PICK c \in Chars :
        \/ left' = Append(left, c) /\ UNCHANGED right
        \/ right' = Append(right, c) /\ UNCHANGED left
  BY DEF Type
<1>3. Append(left, c) \in Seq(Chars) /\ Append(right, c) \in Seq(Chars)
  BY <1>1, AppendProperties
<1>4. at' = at
  BY DEF Type
<1>. QED BY <1>1, <1>2, <1>3, <1>4

\* A written line keeps the type of the file.
LEMMA WriteKeeps ==
  ASSUME TextsTyped, Write
  PROVE  lines' \in Seq(Line)
<1>1. PICK line \in Line : lines' = Append(lines, line)
  BY DEF Write
<1>. QED BY <1>1, AppendProperties DEF TextsTyped

\* The refs are texts, the time has digits, the file consists of lines,
\* however long they get.
THEOREM TextsTypeCorrect == TextsSpec => []TextsTyped
<1>1. TextsInit => TextsTyped
  BY DEF TextsInit, NamesInit, ConfigInit, TextsTyped
<1>2. TextsTyped /\ [TextsNext]_<<namesVars, lines>> => TextsTyped'
  <2>. SUFFICES ASSUME TextsTyped, [TextsNext]_<<namesVars, lines>>
                PROVE  TextsTyped'
    OBVIOUS
  <2>1. CASE Type /\ UNCHANGED lines
    BY <2>1, TypeKeeps DEF TextsTyped
  <2>2. CASE Write /\ UNCHANGED namesVars
    BY <2>2, WriteKeeps DEF TextsTyped, namesVars
  <2>3. CASE UNCHANGED <<namesVars, lines>>
    BY <2>3 DEF TextsTyped, namesVars
  <2>. QED BY <2>1, <2>2, <2>3 DEF TextsNext
<1>. QED BY <1>1, <1>2, PTL DEF TextsSpec

\* Deploys whose jobs' identifiers end differently, or that start in another
\* second, have release directories of their own, for refs of any length and
\* whatever length of an identifier shortID keeps.
THEOREM DifferentKeys == TextsSpec => []KeysDiffer
<1>1. TextsTyped => KeysDiffer
  BY KeysDifferHolds DEF TextsTyped
<1>. QED BY <1>1, TextsTypeCorrect, PTL

\* SQLite's order of the texts the driver writes for times is the order of
\* the times, with any number of decimal places, although the zeros at the
\* end are left out.
THEOREM TextsInOrder == TextsSpec => []TextInOrder
<1>1. TextsTyped => TextInOrder
  BY TextInOrderHolds DEF TextsTyped
<1>. QED BY <1>1, TextsTypeCorrect, PTL

\* LoadConfig gives every setting the value of the last line that assigns it
\* in its section, in a file of any length, also behind what the installer
\* wrote, and refuses exactly the files that leave one it needs empty.
THEOREM LastLinesDecide == TextsSpec => []LastLineDecides
<1>1. TextsTyped => LastLineDecides
  BY LastLineDecidesHolds DEF TextsTyped
<1>. QED BY <1>1, TextsTypeCorrect, PTL

\* safePathToken makes of a ref, of any length, its letters and digits with
\* one hyphen for whatever separates two of them, cut at any TokenLen.
THEOREM TokensAreJoined == TextsSpec => []TokenIsJoined
<1>1. TextsTyped => TokenIsJoined
  BY TokenIsJoinedHolds DEF TextsTyped
<1>. QED BY <1>1, TextsTypeCorrect, PTL

=============================================================================
