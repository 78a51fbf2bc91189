-------------------------------- MODULE Names --------------------------------
(***************************************************************************)
(* How texts decide: the names of release directories (safePathToken,      *)
(* shortID and the release key in src/cmd/cplane-agent/main.go) and the    *)
(* text SQLite orders times by (src/internal/store/sqlitestore/sqlite.go). *)
(* Two refs are typed one character at a time, and every prefix is         *)
(* checked, with every pair of identifiers and instants.                   *)
(***************************************************************************)
EXTENDS Integers, Sequences, SequencesExt

CONSTANTS
  MaxLeft,  \* bound on the length of the first ref
  MaxRight, \* bound on the length of the second ref
  TokenLen, \* where a token is cut, 40
  ShortLen, \* what is kept of an identifier, 8
  Fraction, \* decimal places of a time, 6
  Base      \* digits in use

ASSUME NamesAssumption ==
  /\ {MaxLeft, MaxRight} \subseteq Nat
  /\ {TokenLen, ShortLen, Fraction} \subseteq Nat \ {0}
  /\ Base \in 2 .. 10

VARIABLES
  left,  \* the ref of one deploy
  right, \* the ref of another one
  at     \* the fraction of a time

namesVars == <<left, right, at>>

\* One character of each kind safePathToken tells apart: two letters, one of
\* them in both cases, a digit, the hyphen, a character it replaces and white
\* space.
Chars == {"a", "A", "b", "1", "-", "/", " "}
Kept == {"a", "b", "1"}

\* Codes in the order of their characters: blank, full stop, digits.
Digits == 2 .. Base + 1
Times == [1 .. Fraction -> Digits]
Whole == [i \in 1 .. Fraction |-> 2]

NamesInit == left = <<>> /\ right = <<>> /\ at \in Times

\* Every time is looked at with empty refs, every ref with one time.
Type ==
  /\ at = Whole /\ UNCHANGED at
  /\ \E c \in Chars :
       \/ Len(left) < MaxLeft /\ left' = Append(left, c) /\ UNCHANGED right
       \/ Len(right) < MaxRight /\ right' = Append(right, c) /\ UNCHANGED left

NamesSpec == NamesInit /\ [][Type]_namesVars

-----------------------------------------------------------------------------
(* The code.                                                               *)

\* What is left of s without the leading and trailing characters in C.
Trim(s, C) ==
  LET K == {i \in DOMAIN s : s[i] \notin C} IN
    IF K = {} THEN <<>>
    ELSE SubSeq(s, CHOOSE i \in K : \A k \in K : i <= k, CHOOSE i \in K : \A k \in K : k <= i)

Lower(c) == IF c = "A" THEN "a" ELSE c

\* Mutant: every character that is replaced gives a hyphen.
PutEach(b, c) == Append(b, IF c \in Kept THEN c ELSE "-")

\* The body of the loop: a run of other characters gives one hyphen.
Put(b, c) ==
  IF c \in Kept THEN Append(b, c)
  ELSE IF b # <<>> /\ Last(b) # "-" THEN Append(b, "-")
  ELSE b

Cut(out) ==
  IF out = <<>> THEN <<"r", "e", "f">>
  ELSE IF Len(out) > TokenLen THEN SubSeq(out, 1, TokenLen)
  ELSE out

Written(value) == FoldLeft(Put, <<>>, [i \in DOMAIN value |-> Lower(value[i])])

safePathToken(value) == Cut(Trim(Written(Trim(value, {" "})), {"-"}))

\* Mutant: the beginning is kept, which every job has in common.
shortIDFirst(id) == IF Len(id) <= ShortLen THEN id ELSE SubSeq(id, 1, ShortLen)

shortID(id) ==
  IF Len(id) <= ShortLen THEN id ELSE SubSeq(id, Len(id) - ShortLen + 1, Len(id))

\* New: a prefix and random hexadecimal digits, here two more than are kept.
Ids == {<<"job_">> \o s : s \in [1 .. ShortLen + 1 -> {"a", "1"}]}

\* The clock to the second stands for fourteen digits.
ReleaseKey(second, ref, id) ==
  <<second, "-">> \o safePathToken(ref) \o <<"-">> \o shortID(id)

\* Mutant: the text ends in Z, as in RFC 3339.
TextZ(t) ==
  LET f == Trim(<<-1>> \o t, {2}) IN
    (IF Len(f) = 1 THEN <<>> ELSE <<1>> \o Tail(f)) \o <<99>>

\* The driver writes a time as time.Time's String does: the zeros at the end
\* of the fraction are left out, and a blank follows.
Text(t) ==
  LET f == Trim(<<-1>> \o t, {2}) IN
    (IF Len(f) = 1 THEN <<>> ELSE <<1>> \o Tail(f)) \o <<0>>

-----------------------------------------------------------------------------
(* References.                                                             *)

\* The numbers in S from the least one on.
Ordered(S) == CHOOSE p \in [1 .. Cardinality(S) -> S] :
  \A i, j \in 1 .. Cardinality(S) : i < j => p[i] < p[j]

\* The letters and digits of s in their order, a hyphen between two that are
\* not neighbours in s.
Joined(s) ==
  LET place == Ordered({i \in DOMAIN s : Lower(s[i]) \in Kept})
      part(i) == (IF i > 1 /\ place[i] > place[i - 1] + 1 THEN <<"-">> ELSE <<>>) \o <<Lower(s[place[i]])>>
  IN FlattenSeq([i \in DOMAIN place |-> part(i)])

\* x comes before y in the order of texts.
Before(x, y) ==
  \/ IsStrictPrefix(x, y)
  \/ \E i \in DOMAIN x \cap DOMAIN y :
       x[i] < y[i] /\ \A k \in 1 .. i - 1 : x[k] = y[k]

\* x is earlier than y: the first digit that differs decides.
Earlier(x, y) ==
  \E i \in DOMAIN x : x[i] < y[i] /\ \A k \in 1 .. i - 1 : x[k] = y[k]

-----------------------------------------------------------------------------
(* Properties.                                                             *)

\* A token consists of the ref's letters and digits, with one hyphen for
\* whatever separates them, cut at TokenLen; a ref without any is called ref.
\* So no ref makes the directory of a release a path or a hidden name
\* (temporary directories are). The cut comes after the hyphens at the ends
\* are taken off and may leave one at the end: "ab/1" cut at 3 is "ab-", and
\* two hyphens then meet in the key.
TokenIsJoined ==
  LET joined == Joined(left) IN
    safePathToken(left) =
      IF joined = <<>> THEN <<"r", "e", "f">>
      ELSE SubSeq(joined, 1, IF Len(joined) > TokenLen THEN TokenLen ELSE Len(joined))

\* Releases of jobs whose identifiers end differently have different
\* directories, in the same second and whatever their refs are: a hyphen in
\* one ref does not make up for the end of the other.
KeysDiffer ==
  \A x, y \in Ids : \A s, t \in {"10:00:00", "10:00:01"} :
    ReleaseKey(s, left, x) = ReleaseKey(t, right, y) =>
      s = t /\ \A i \in 0 .. ShortLen - 1 : x[Len(x) - i] = y[Len(y) - i]

\* ORDER BY created_at and last_seen_at < ? compare texts, which are not of
\* one length: the order is that of the times.
TextInOrder == \A t \in Times : Before(Text(at), Text(t)) <=> Earlier(at, t)

=============================================================================
