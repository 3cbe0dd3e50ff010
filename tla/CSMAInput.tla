------------------------------ MODULE CSMAInput ------------------------------
(***************************************************************************)
(* The constructor of CSMASimulator and its parseMultipleArgs(): the       *)
(* parameters of a simulation are read from an input file, one per line.   *)
(* A line is its first character with the numbers that follow; a token     *)
(* that is no number is a negative one here, as the code throws on both.   *)
(***************************************************************************)
EXTENDS Integers, Sequences

CONSTANTS
  Inputs,        \* the input files considered, as sequences of lines
  Unset,         \* a member without an initialiser that no line has set
  Garbage        \* bound: the values such a member may turn out to hold

VARIABLES
  lines,         \* the input file
  pos,           \* the lines read
  node_count, packet_sz, retransmissions, retransmission_backoff,
  simulation_time,
  ipc            \* "read", "ok", or "thrown" (an exception ends the program)

parameters == <<node_count, packet_sz, retransmissions, retransmission_backoff,
                simulation_time>>
vars == <<lines, pos, parameters, ipc>>

Blank == [c |-> "", toks |-> <<>>]

\* A file that cannot be opened is thrown out before its first line.
Init ==
  /\ lines \in Inputs
  /\ pos = 0
  /\ node_count = Unset
  /\ packet_sz = Unset
  /\ retransmissions = -1
  /\ retransmission_backoff = <<>>
  /\ simulation_time = Unset
  /\ ipc \in {"read", "thrown"}

\* Mutant of Parsed: a negative number is let through.
ParsedUnchecked(line) == line.toks # <<>>

\* parseMultipleArgs() returns at least one number, none of them negative.
Parsed(line) == line.toks # <<>> /\ \A k \in DOMAIN line.toks : line.toks[k] >= 0

\* Mutant of CountMismatch: the backoffs are counted before M is known.
CountMismatchAlways(line) == Len(line.toks) # retransmissions

\* The backoffs are counted only when M came before them.
CountMismatch(line) ==
  retransmissions # -1 /\ Len(line.toks) # retransmissions

Accepted(line) ==
  /\ line.c \in {"N", "L", "M", "R", "T"}
  /\ Parsed(line)
  /\ line.c = "R" => ~CountMismatch(line)

Reading == ipc = "read" /\ pos < Len(lines)
Line == lines[pos + 1]

\* The value that a line leaves in the parameter of letter c.
SetBy(c, old) == IF Line.c = c THEN Line.toks[1] ELSE old

ReadLine ==
  /\ Reading /\ Line # Blank
  /\ Accepted(Line)
  /\ node_count' = SetBy("N", node_count)
  /\ packet_sz' = SetBy("L", packet_sz)
  /\ retransmissions' = SetBy("M", retransmissions)
  /\ retransmission_backoff' =
       IF Line.c = "R" THEN Line.toks ELSE retransmission_backoff
  /\ simulation_time' = SetBy("T", simulation_time)
  /\ pos' = pos + 1
  /\ UNCHANGED <<lines, ipc>>

SkipBlank ==
  /\ Reading /\ Line = Blank
  /\ pos' = pos + 1
  /\ UNCHANGED <<lines, parameters, ipc>>

\* The exceptions of a line: its letter, its numbers, its count of backoffs.
Reject ==
  /\ Reading /\ Line # Blank
  /\ ~Accepted(Line)
  /\ ipc' = "thrown"
  /\ UNCHANGED <<lines, pos, parameters>>

\* From here on a member that no line set is read: it holds some value.
Held(value) == IF value = Unset THEN Garbage ELSE {value}

EndOfFile ==
  /\ ipc = "read" /\ pos = Len(lines)
  /\ ipc' = "ok"
  /\ node_count' \in Held(node_count)
  /\ packet_sz' \in Held(packet_sz)
  /\ simulation_time' \in Held(simulation_time)
  /\ UNCHANGED <<lines, pos, retransmissions, retransmission_backoff>>

Next == ReadLine \/ SkipBlank \/ Reject \/ EndOfFile

==============================================================================
