----------------------------- MODULE CSMAProgram -----------------------------
(***************************************************************************)
(* The program csma (mp4/src/csma.cpp): main() constructs a simulator from *)
(* the input file, simulates, and writes the goodput to output.txt.  The   *)
(* parameters of CSMA are those that CSMAInput reads; the sets from which  *)
(* CSMA's own Init takes them are not used.                                *)
(***************************************************************************)
EXTENDS CSMA, SequencesExt

CONSTANTS Inputs, Unset, Garbage

ASSUME InputsAssumption ==
  \A f \in Inputs : f \in Seq([c : {f[k].c : k \in DOMAIN f}, toks : Seq(Int)])
ASSUME UnsetAssumption == Unset \notin Int

VARIABLES
  lines, pos, retransmissions, ipc,   \* of the constructor
  goodput        \* what output.txt holds: NoOutput, NaN, or <<slots, duration>>

Input == INSTANCE CSMAInput

inputVars == <<lines, pos, retransmissions, ipc>>
programVars == <<vars, inputVars, goodput>>

NoOutput == <<>>
NaN == <<0, 0>>

ProgramInit == Input!Init /\ MembersInit /\ goodput = NoOutput

Construct ==
  /\ Input!Next
  /\ UNCHANGED <<nodeVars, currTime, channelVars, cpc, goodput>>

Simulate == ipc = "ok" /\ Next /\ UNCHANGED <<inputVars, goodput>>

\* The quotient of two doubles, 0/0 included, is written with two decimals.
WriteGoodput ==
  /\ cpc = "done" /\ goodput = NoOutput
  /\ goodput' = IF simulation_time = 0 THEN NaN
                ELSE <<successfulTransmissionTicks, simulation_time>>
  /\ UNCHANGED <<vars, inputVars>>

ProgramNext == Construct \/ Simulate \/ WriteGoodput

\* A sequential program that nothing blocks.
ProgramSpec == ProgramInit /\ [][ProgramNext]_programVars /\ WF_programVars(ProgramNext)

------------------------------------------------------------------------------
LinesOf(c) == {k \in DOMAIN lines : lines[k].c = c}
LastOf(c) == lines[Max(LinesOf(c))].toks

\* What the documentation of the file asks of a line, whatever the code accepts.
GoodLine(line) ==
  \/ line = Input!Blank
  \/ /\ line.c \in {"N", "L", "M", "R", "T"}
     /\ line.toks # <<>> /\ \A k \in DOMAIN line.toks : line.toks[k] >= 0

\* With an M line before an R line, and no other of both, there are as many backoffs
\* as M says.
CountedAfterM ==
  \A r \in DOMAIN lines : \A m \in 1 .. r - 1 :
    (/\ lines[r].c = "R" /\ lines[m].c = "M"
     /\ \A k \in m + 1 .. Len(lines) : k = r \/ lines[k].c \notin {"M", "R"})
      => Len(retransmission_backoff) = retransmissions

\* No exception, of any line, is lost: a simulation runs only on a file whose every
\* line is good, with the values that the last line of each letter gave, and with
\* counted backoffs where they can be.
SimulatesTheFile ==
  cpc # "init" =>
    /\ \A k \in DOMAIN lines : GoodLine(lines[k])
    /\ LinesOf("N") # {} => node_count = LastOf("N")[1]
    /\ LinesOf("L") # {} => packet_sz = LastOf("L")[1]
    /\ LinesOf("R") # {} => retransmission_backoff = LastOf("R")
    /\ LinesOf("T") # {} => simulation_time = LastOf("T")[1]
    /\ CountedAfterM

\* The file of the assignment: one line for each parameter, in any order, M backoffs
\* in R, all of them positive, and some time to simulate.
WellFormed ==
  /\ \A k \in DOMAIN lines : GoodLine(lines[k])
  /\ \A c \in {"N", "L", "M", "R", "T"} : Cardinality(LinesOf(c)) = 1
  /\ Len(LastOf("R")) = LastOf("M")[1]
  /\ \A k \in DOMAIN LastOf("R") : LastOf("R")[k] > 0
  /\ LastOf("T")[1] > 0

\* The program ends on every file; on a well-formed one that it could open it ends
\* with a goodput between 0 and 1, in whatever order the lines came.
WellFormedRuns ==
  <>[](\/ ipc = "thrown" /\ (WellFormed => pos = 0)
       \/ cpc = "trap" /\ ~WellFormed
       \/ /\ goodput # NoOutput
          /\ WellFormed => goodput[1] \in 0 .. goodput[2] /\ goodput[2] > 0)

==============================================================================
