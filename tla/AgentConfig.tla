----------------------------- MODULE AgentConfig -----------------------------
(***************************************************************************)
(* The agent's configuration: what LoadConfig makes of a file (src/cmd/    *)
(* cplane-agent/main.go), which the installer wrote (src/scripts/          *)
(* install-agent.sh) and an admin may have changed.  A file is written one *)
(* line at a time, and what is there is loaded after each.                 *)
(***************************************************************************)
EXTENDS Integers, Sequences, SequencesExt

CONSTANTS
  Words,   \* texts an admin may set
  MaxLines \* bound on the lines of a file

ASSUME AgentConfigAssumption == MaxLines \in Nat

VARIABLE lines \* the file

\* A value in quotes is a record of its own: what is quoted is text, also
\* when it is a number.
Plain(v) == [text |-> v, quoted |-> FALSE]
Quoted(v) == [text |-> v, quoted |-> TRUE]

\* Numbers as poll_interval_seconds may give them; Bad is no number.
Bad == "often"
Seconds == [ten |-> 10, zero |-> 0]
Values == {Plain(v) : v \in Words \cup {Bad} \cup DOMAIN Seconds} \cup
          {Quoted(v) : v \in Words \cup {"ten"}}

Keys == {"host_id", "api_url", "poll_interval_seconds", "token_file"}
Sections == {"auth", "other"}

\* Every other key of a known section behaves as host_id does; comments,
\* empty lines and lines without = are Noise.
Noise == [is |-> "noise"]
Section(s) == [is |-> "section", name |-> s]
Assign(k, v) == [is |-> "assignment", key |-> k, value |-> v]

Line == {Noise} \cup {Section(s) : s \in Sections} \cup
  {Assign(k, v) : k \in Keys \ {"poll_interval_seconds"}, v \in {Plain(w) : w \in Words}} \cup
  {Assign("poll_interval_seconds", v) : v \in Values}

ConfigInit == lines = <<>>

Write ==
  /\ Len(lines) < MaxLines
  /\ \E line \in Line : lines' = Append(lines, line)

ConfigSpec == ConfigInit /\ [][Write]_lines

-----------------------------------------------------------------------------
(* The code.                                                               *)

Default == [host_id |-> "", api_url |-> "", poll_interval_seconds |-> 15,
            token_file |-> "/etc/c-plane/agent.token"]

\* strings.Trim(value, `"`).
Unquote(v) == v.text

IsInterval(text) == text \in DOMAIN Seconds /\ Seconds[text] > 0

\* Mutant: a key counts in every section.
AnySection(section, key) == TRUE

\* The cases of the switch.
Belongs(section, key) ==
  IF key = "token_file" THEN section = "auth" ELSE section = ""

\* state: the section a line is in and the configuration so far.
ReadLine(state, line) ==
  IF line.is = "section" THEN [state EXCEPT !.section = line.name]
  ELSE IF line.is = "noise" \/ ~Belongs(state.section, line.key) THEN state
  ELSE IF line.key # "poll_interval_seconds"
    THEN [state EXCEPT !.config[line.key] = Unquote(line.value)]
  ELSE IF IsInterval(Unquote(line.value))
    THEN [state EXCEPT !.config.poll_interval_seconds = Seconds[Unquote(line.value)]]
  ELSE state

Read(file) == FoldLeft(ReadLine, [section |-> "", config |-> Default], file).config

\* What is returned without an error.
Loads(file) == \A k \in {"host_id", "api_url", "token_file"} : Read(file)[k] # ""

\* The file the installer writes, as far as LoadConfig reads it.
Installed(host, api, interval) ==
  <<Assign("host_id", Quoted(host)), Assign("api_url", Quoted(api)),
    Assign("poll_interval_seconds", Quoted(interval)), Noise,
    Section("auth"), Assign("token_file", Quoted("/etc/c-plane/agent.token"))>>

-----------------------------------------------------------------------------
(* Properties.                                                             *)

\* The lines of a file that assign k where it counts: before the first section
\* for the settings of the agent, while [auth] is the last section for the
\* token file.
Assigning(file, k) ==
  {i \in DOMAIN file :
     /\ file[i].is = "assignment" /\ file[i].key = k
     /\ LET before == {n \in 1 .. i - 1 : file[n].is = "section"} IN
          IF k = "token_file"
            THEN \E n \in before : file[n].name = "auth" /\ \A m \in before : m <= n
            ELSE before = {}
     /\ k = "poll_interval_seconds" => file[i].value.text = "ten"}

ValueOf(file, k) ==
  LET at == Assigning(file, k)
      last == CHOOSE i \in at : \A n \in at : n <= i IN
    IF at = {} THEN Default[k]
    ELSE IF k = "poll_interval_seconds" THEN 10
    ELSE file[last].value.text

\* The file as it is, and appended to what the installer wrote.
Given == Words \ {""}
Files == {lines} \cup {Installed(h, a, "ten") \o lines : h, a \in Given}

\* The last line that assigns a key in its section decides, quoted or not; an
\* interval that is no positive number is passed over, whatever comes before
\* and after it, so the ticker always has a positive one.  What is appended to
\* the installer's file is in [auth] or after it and can change the token
\* file at most.  A file loads when the three texts it needs are not empty.
LastLineDecides ==
  \A file \in Files :
    /\ \A k \in Keys : Read(file)[k] = ValueOf(file, k)
    /\ Loads(file) <=> \A k \in Keys \ {"poll_interval_seconds"} : ValueOf(file, k) # ""

=============================================================================
