--------------------------- MODULE LauncherProofs ---------------------------
(***************************************************************************)
(* Proofs about Launcher, for every number of processes, of ports and of   *)
(* files, and however often the port is polled: what a command reaches,    *)
(* what status its process reports, and that a process comes to rest.      *)
(***************************************************************************)
EXTENDS Launcher, TLAPS

-----------------------------------------------------------------------------
(* The invariant. *)

\* A port is listened on by the process it is the port of.
HoldersListen ==
  \A p \in Ports :
    /\ holder[p] = Stranger => p \in Taken
    /\ holder[p] \in Processes => Port[holder[p]] = p /\ Runs(holder[p])

\* What the main task is doing, whose command is there, and whose request waits.
CommandsRun ==
  \A i \in Processes :
    /\ main[i] \in {"polling", "ready", "waiting"} => i \in Executing
    /\ command[i] = "running" => main[i] = "waiting"
    /\ asking[i] # Nobody => command[i] = "running"
    /\ code[i].exit # "none" => main[i] = "exited"
    /\ results[i] # {} => main[i] \in {"waiting", "exited"}
    /\ server[i] \in {"starting", "listening"} => main[i] \notin {"start", "exited"}

\* A process that shares its port with no other ...
PortKept ==
  \A i \in Processes : OwnPort(i) =>
    /\ asking[i] \in {Nobody, i}
    /\ main[i] \in {"ready", "waiting"} =>
         \/ holder[Port[i]] = i
         \/ polls[i] = MaxPolls
         \/ server[i] = "panicked"

\* ... and one that does asks whoever else has it.
AskedAtPort ==
  \A i \in Processes :
    /\ asking[i] = Stranger => Port[i] \in Taken
    /\ asking[i] \in Processes => Port[asking[i]] = Port[i]

\* A file is written by those whose file it is, and stays written.
FileKept ==
  /\ \A f \in Files : ca[f] \in Processes => CaFile(ca[f]) = f
  /\ \A i \in Processes : main[i] # "start" => ca[CaFile(i)] \in Processes

LauncherInv ==
  /\ LauncherTypeOK
  /\ HoldersListen /\ CommandsRun /\ PortKept /\ AskedAtPort /\ FileKept
  /\ MisledOnlyBySharing /\ ReadyWhenRun /\ ZeroMeansSuccess

LEMMA CaFiles ==
  ASSUME NEW i \in Processes
  PROVE  /\ CaFile(i) \in Files
         /\ \A j \in Processes : CaFile(j) = CaFile(i) => j = i \/ SharesFile(i, j)
BY LauncherAssumption DEF CaFile, SharesFile

LEMMA LauncherInvInit ==
  ASSUME LauncherInit
  PROVE  LauncherInv
<1> USE LauncherAssumption DEF LauncherInit
<1>1. LauncherTypeOK
  BY DEF LauncherTypeOK
<1>2. HoldersListen
  BY DEF HoldersListen
<1>3. CommandsRun /\ PortKept /\ AskedAtPort /\ FileKept
  BY DEF CommandsRun, PortKept, FileKept, AskedAtPort
<1>4. MisledOnlyBySharing /\ ReadyWhenRun /\ ZeroMeansSuccess
  BY DEF MisledOnlyBySharing, ReadyWhenRun, ZeroMeansSuccess
<1> QED BY <1>1, <1>2, <1>3, <1>4 DEF LauncherInv

\* On a port of its own a process finds itself or nobody.
LEMMA OwnPortHolder ==
  ASSUME LauncherInv, NEW i \in Processes, OwnPort(i)
  PROVE  holder[Port[i]] \in {Nobody, i}
<1>1. Port[i] \in Ports /\ Port[i] \notin Taken
  BY LauncherAssumption DEF OwnPort
<1>2. holder[Port[i]] \in Processes \cup {Nobody, Stranger}
  BY <1>1 DEF LauncherInv, LauncherTypeOK
<1>3. holder[Port[i]] # Stranger
  BY <1>1 DEF LauncherInv, HoldersListen
<1>4. holder[Port[i]] \in Processes => holder[Port[i]] = i
  BY <1>1 DEF LauncherInv, HoldersListen, OwnPort
<1> QED BY <1>2, <1>3, <1>4

-----------------------------------------------------------------------------
(* The steps. *)

LEMMA MainEarlyKeeps ==
  ASSUME LauncherInv, NEW i \in Processes, ExportCa(i) \/ StartServer(i)
  PROVE  LauncherInv'
<1> USE LauncherAssumption DEF LauncherInv, MainGoes, ServerGoes, Runs
<1>1. CASE ExportCa(i)
  <2> USE <1>1 DEF ExportCa
  <2>1. LauncherTypeOK'
    BY DEF LauncherTypeOK
  <2>2. HoldersListen' /\ CommandsRun' /\ PortKept'
    BY DEF LauncherTypeOK, HoldersListen, CommandsRun, PortKept
  <2>3. FileKept' /\ AskedAtPort'
    BY CaFiles DEF LauncherTypeOK, FileKept, AskedAtPort
  <2>4. MisledOnlyBySharing' /\ ReadyWhenRun' /\ ZeroMeansSuccess'
    BY DEF LauncherTypeOK, MisledOnlyBySharing, ReadyWhenRun, ZeroMeansSuccess
  <2> QED BY <2>1, <2>2, <2>3, <2>4
<1>2. CASE StartServer(i)
  <2> USE <1>2 DEF StartServer
  <2>1. LauncherTypeOK'
    BY DEF LauncherTypeOK
  <2>2. HoldersListen' /\ CommandsRun' /\ PortKept'
    BY DEF LauncherTypeOK, HoldersListen, CommandsRun, PortKept
  <2>3. FileKept' /\ AskedAtPort'
    BY DEF LauncherTypeOK, FileKept, AskedAtPort
  <2>4. ReadyWhenRun' /\ ZeroMeansSuccess'
    BY DEF LauncherTypeOK, CommandsRun, ReadyWhenRun, ZeroMeansSuccess
  <2>5. MisledOnlyBySharing'
    BY DEF MisledOnlyBySharing
  <2> QED BY <2>1, <2>2, <2>3, <2>4, <2>5
<1> QED BY <1>1, <1>2

LEMMA PollKeeps ==
  ASSUME LauncherInv, NEW i \in Processes, PollHit(i) \/ PollMiss(i) \/ PollsOver(i)
  PROVE  LauncherInv'
<1> USE LauncherAssumption DEF LauncherInv, MainGoes, Runs
<1>1. CASE PollHit(i)
  <2> USE <1>1 DEF PollHit
  <2>1. LauncherTypeOK'
    BY DEF LauncherTypeOK
  <2>2. HoldersListen' /\ CommandsRun' /\ FileKept' /\ AskedAtPort'
    BY DEF LauncherTypeOK, HoldersListen, CommandsRun, FileKept, AskedAtPort
  <2>3. PortKept'
    BY OwnPortHolder DEF LauncherTypeOK, PortKept
  <2>4. MisledOnlyBySharing' /\ ReadyWhenRun' /\ ZeroMeansSuccess'
    BY DEF LauncherTypeOK, MisledOnlyBySharing, ReadyWhenRun, ZeroMeansSuccess
  <2> QED BY <2>1, <2>2, <2>3, <2>4
<1>2. CASE PollMiss(i)
  <2> USE <1>2 DEF PollMiss
  <2>1. LauncherTypeOK'
    BY DEF LauncherTypeOK
  <2>2. HoldersListen' /\ CommandsRun' /\ FileKept' /\ AskedAtPort'
    BY DEF LauncherTypeOK, HoldersListen, CommandsRun, FileKept, AskedAtPort
  <2>3. PortKept' /\ ReadyWhenRun'
    BY DEF LauncherTypeOK, PortKept, ReadyWhenRun
  <2>4. MisledOnlyBySharing' /\ ZeroMeansSuccess'
    BY DEF LauncherTypeOK, MisledOnlyBySharing, ZeroMeansSuccess
  <2> QED BY <2>1, <2>2, <2>3, <2>4
<1>3. CASE PollsOver(i)
  <2> USE <1>3 DEF PollsOver
  <2>1. LauncherTypeOK'
    BY DEF LauncherTypeOK
  <2>2. HoldersListen' /\ CommandsRun' /\ FileKept' /\ AskedAtPort'
    BY DEF LauncherTypeOK, HoldersListen, CommandsRun, FileKept, AskedAtPort
  <2>3. PortKept'
    BY DEF LauncherTypeOK, PortKept
  <2>4. MisledOnlyBySharing' /\ ReadyWhenRun' /\ ZeroMeansSuccess'
    BY DEF LauncherTypeOK, MisledOnlyBySharing, ReadyWhenRun, ZeroMeansSuccess
  <2> QED BY <2>1, <2>2, <2>3, <2>4
<1> QED BY <1>1, <1>2, <1>3

LEMMA RunCommandKeeps ==
  ASSUME LauncherInv, NEW i \in Processes, RunCommand(i)
  PROVE  LauncherInv'
<1> USE LauncherAssumption DEF LauncherInv, MainGoes, Runs, RunCommand
<1>1. LauncherTypeOK'
  BY DEF LauncherTypeOK
<1>2. HoldersListen' /\ CommandsRun' /\ FileKept' /\ AskedAtPort'
  BY DEF LauncherTypeOK, HoldersListen, CommandsRun, FileKept, AskedAtPort
<1>3. PortKept'
  BY DEF LauncherTypeOK, PortKept
<1>4. MisledOnlyBySharing' /\ ReadyWhenRun' /\ ZeroMeansSuccess'
  <2>1. MisledOnlyBySharing'
    BY DEF MisledOnlyBySharing
  <2>2. ZeroMeansSuccess'
    BY DEF LauncherTypeOK, CommandsRun, ZeroMeansSuccess
  <2>3. ReadyWhenRun'
    BY DEF LauncherTypeOK, ReadyWhenRun
  <2> QED BY <2>1, <2>2, <2>3
<1> QED BY <1>1, <1>2, <1>3, <1>4

\* A process that exits, with a status that says what it should, leaves the
\* others as they are.
LEMMA ExitKeeps ==
  ASSUME LauncherInv, NEW i \in Processes,
         NEW s \in {"zero", "nonzero", "panic"}, Exit(i, s),
         UNCHANGED <<polls, ca, command, asking, results, asked>>,
         command[i] # "running", main[i] # "start",
         s = "zero" => command[i] = "ended" /\ code[i].command = "zero"
  PROVE  LauncherInv'
<1> USE LauncherAssumption DEF LauncherInv, MainGoes, ServerGoes, Runs, Exit
<1>1. /\ code' \in [Processes -> [command : Codes \cup {"none"},
                                  exit : {"zero", "nonzero", "panic", "none"}]]
      /\ \A j \in Processes : /\ code'[j].command = code[j].command
                              /\ code'[j].exit = IF j = i THEN s ELSE code[j].exit
  BY DEF LauncherTypeOK
<1>2. holder' = Release(i)
  OBVIOUS
<1>3. /\ holder' \in [Ports -> Processes \cup {Nobody, Stranger}]
      /\ \A p \in Ports : holder'[p] = IF holder[p] = i THEN Nobody ELSE holder[p]
  BY <1>2 DEF LauncherTypeOK, Release
<1>4. LauncherTypeOK'
  BY <1>1, <1>3 DEF LauncherTypeOK
<1>5. HoldersListen'
  BY <1>3 DEF LauncherTypeOK, HoldersListen
<1>6. CommandsRun'
  BY <1>1 DEF LauncherTypeOK, CommandsRun
<1>10. FileKept' /\ AskedAtPort'
  BY DEF LauncherTypeOK, FileKept, AskedAtPort
<1>7. PortKept'
  BY <1>3, ZenonT(40) DEF LauncherTypeOK, PortKept
<1>8. MisledOnlyBySharing' /\ ReadyWhenRun'
  BY DEF LauncherTypeOK, MisledOnlyBySharing, ReadyWhenRun
<1>9. ZeroMeansSuccess'
  BY <1>1 DEF LauncherTypeOK, ZeroMeansSuccess
<1> QED BY <1>4, <1>5, <1>6, <1>7, <1>8, <1>9, <1>10

LEMMA ExitsKeep ==
  ASSUME LauncherInv, NEW i \in Processes,
         RunFails(i) \/ ExitWithCommand(i) \/ Stop(i)
  PROVE  LauncherInv'
<1>1. command[i] = "running" => main[i] = "waiting"
  BY DEF LauncherInv, CommandsRun
<1>2. CASE RunFails(i)
  BY <1>1, <1>2, ExitKeeps DEF RunFails
<1>3. CASE ExitWithCommand(i)
  <2>1. /\ ExitStatus(code[i].command) \in {"zero", "nonzero", "panic"}
        /\ ExitStatus(code[i].command) = "zero" => code[i].command = "zero"
    BY DEF ExitStatus
  <2> QED BY <1>3, <2>1, ExitKeeps DEF ExitWithCommand
<1>4. CASE Stop(i)
  BY <1>1, <1>4, ExitKeeps DEF Stop
<1> QED BY <1>2, <1>3, <1>4

LEMMA BindKeeps ==
  ASSUME LauncherInv, NEW i \in Processes, Bind(i)
  PROVE  LauncherInv'
<1> USE LauncherAssumption DEF LauncherInv, ServerGoes, Runs
<1>1. /\ server[i] = "starting" /\ holder[Port[i]] = Nobody
      /\ holder' = [holder EXCEPT ![Port[i]] = i]
      /\ server' = [server EXCEPT ![i] = "listening"]
      /\ UNCHANGED <<main, polls, ca, command, asking, results, asked, code>>
  BY DEF Bind
<1> USE <1>1
<1>2. LauncherTypeOK'
  BY DEF LauncherTypeOK
<1>3. main[i] # "exited"
  BY DEF CommandsRun
<1>4. HoldersListen'
  BY <1>3 DEF LauncherTypeOK, HoldersListen
<1>5. CommandsRun' /\ FileKept' /\ AskedAtPort'
  BY DEF LauncherTypeOK, CommandsRun, FileKept, AskedAtPort
<1>6. PortKept'
  BY DEF LauncherTypeOK, PortKept
<1>7. MisledOnlyBySharing' /\ ZeroMeansSuccess'
  BY DEF MisledOnlyBySharing, ZeroMeansSuccess
<1>8. ReadyWhenRun'
  BY DEF LauncherTypeOK, ReadyWhenRun
<1> QED BY <1>2, <1>4, <1>5, <1>6, <1>7, <1>8

LEMMA ServerPanicsKeeps ==
  ASSUME LauncherInv, NEW i \in Processes, ServerPanics(i)
  PROVE  LauncherInv'
<1> USE LauncherAssumption DEF LauncherInv, Runs
<1>1. server[i] \in {"starting", "listening"} /\ main[i] \notin {"start", "exited"}
  BY DEF ServerPanics, CommandsRun
<1>2. CASE i \in Executing
  <2>1. /\ server' = [server EXCEPT ![i] = "panicked"] /\ holder' = Release(i)
        /\ UNCHANGED <<main, code, polls, ca, command, asking, results, asked>>
    BY <1>2 DEF ServerPanics, ServerGoes
  <2> USE <2>1
  <2>2. /\ holder' \in [Ports -> Processes \cup {Nobody, Stranger}]
        /\ \A p \in Ports : holder'[p] = IF holder[p] = i THEN Nobody ELSE holder[p]
    BY DEF LauncherTypeOK, Release
  <2>3. LauncherTypeOK'
    BY <2>2 DEF LauncherTypeOK
  <2>4. HoldersListen'
    BY <2>2 DEF LauncherTypeOK, HoldersListen
  <2>5. CommandsRun' /\ FileKept' /\ AskedAtPort'
    BY DEF LauncherTypeOK, CommandsRun, FileKept, AskedAtPort
  <2>6. PortKept'
    BY <2>2 DEF LauncherTypeOK, PortKept
  <2>7. MisledOnlyBySharing' /\ ZeroMeansSuccess'
    BY DEF MisledOnlyBySharing, ZeroMeansSuccess
  <2>8. ReadyWhenRun'
    BY DEF LauncherTypeOK, ReadyWhenRun
  <2> QED BY <2>3, <2>4, <2>5, <2>6, <2>7, <2>8
<1>3. CASE i \notin Executing
  <2>1. command[i] # "running"
    BY <1>3 DEF CommandsRun
  <2> QED BY <1>1, <1>3, <2>1, ExitKeeps DEF ServerPanics
<1> QED BY <1>2, <1>3

LEMMA AnswerKeeps ==
  ASSUME LauncherInv, NEW i \in Processes, Answer(i)
  PROVE  LauncherInv'
<1> USE LauncherAssumption DEF LauncherInv, Runs
<1>1. /\ asking[i] # Nobody
      /\ results' = [results EXCEPT ![i] = @ \cup {Outcome(i, asking[i])}]
      /\ asking' = [asking EXCEPT ![i] = Nobody]
      /\ UNCHANGED <<main, server, polls, holder, ca, command, asked, code>>
  BY DEF Answer, Answered
<1> USE <1>1
<1>2. Outcome(i, asking[i]) \in {"own", "foreign", "ownUntrusted", "foreignUntrusted", "broken"}
  BY DEF Outcome
<1>3. LauncherTypeOK'
  BY <1>2 DEF LauncherTypeOK
<1>4. HoldersListen' /\ FileKept' /\ AskedAtPort'
  BY DEF HoldersListen, FileKept, AskedAtPort
<1>5. main[i] = "waiting"
  BY DEF CommandsRun
<1>6. CommandsRun'
  BY <1>5 DEF LauncherTypeOK, CommandsRun
<1>7. PortKept'
  BY DEF LauncherTypeOK, PortKept
<1>8. MisledOnlyBySharing'
  <2> DEFINE h == asking[i]
  <2>1. /\ h = Stranger => Port[i] \in Taken
        /\ h # Stranger => h \in Processes /\ Port[h] = Port[i]
    BY DEF LauncherTypeOK, AskedAtPort
  <2>2. /\ ca[CaFile(i)] \in Processes
        /\ CaFile(ca[CaFile(i)]) = CaFile(i)
    BY <1>5, CaFiles DEF FileKept
  <2>3. ASSUME Outcome(i, h) = "foreign"
        PROVE  Port[i] \in Taken \/ \E j \in Processes : SharesPort(i, j) /\ SharesFile(i, j)
    <3>1. h = Stranger \/ (ca[CaFile(i)] = h /\ h # i)
      BY <2>3 DEF Outcome
    <3> QED BY <2>1, <2>2, <3>1, CaFiles DEF SharesPort
  <2>4. ASSUME Outcome(i, h) = "ownUntrusted"
        PROVE  \E j \in Processes : SharesFile(i, j)
    <3>1. ca[CaFile(i)] # h /\ h = i
      BY <2>4 DEF Outcome
    <3> QED BY <2>2, <3>1, CaFiles
  <2>5. ASSUME Outcome(i, h) \in {"foreignUntrusted", "broken"}
        PROVE  \E j \in Processes : SharesPort(i, j)
    <3>1. h # i /\ h # Stranger
      BY <1>5, <2>5 DEF Outcome
    <3> QED BY <2>1, <3>1 DEF SharesPort
  <2>6. /\ results'[i] = results[i] \cup {Outcome(i, h)}
        /\ \A j \in Processes : j # i => results'[j] = results[j]
    BY DEF LauncherTypeOK
  <2> QED BY <2>3, <2>4, <2>5, <2>6 DEF MisledOnlyBySharing
<1>9. ReadyWhenRun'
  BY <1>2 DEF LauncherTypeOK, ReadyWhenRun
<1>10. ZeroMeansSuccess'
  BY DEF ZeroMeansSuccess
<1> QED BY <1>3, <1>4, <1>6, <1>7, <1>8, <1>9, <1>10

LEMMA AskKeeps ==
  ASSUME LauncherInv, NEW i \in Processes, Ask(i)
  PROVE  LauncherInv'
<1> USE LauncherAssumption DEF LauncherInv, Runs
<1> DEFINE h == holder[Port[i]]
<1>1. /\ command[i] = "running" /\ asking[i] = Nobody /\ asked[i] < MaxAsks
      /\ asked' = [asked EXCEPT ![i] = @ + 1]
      /\ asking' = [asking EXCEPT ![i] = h]
      /\ results' = IF h = Nobody
                      THEN [results EXCEPT ![i] = @ \cup {"refused"}] ELSE results
      /\ UNCHANGED <<main, server, polls, holder, ca, command, code>>
  BY DEF Ask
<1>2. main[i] = "waiting"
  BY <1>1 DEF CommandsRun
<1>3. h \in Processes \cup {Nobody, Stranger} /\ Port[i] \in Ports
  BY DEF LauncherTypeOK
<1>4. OwnPort(i) => h \in {Nobody, i}
  BY OwnPortHolder
<1>13. (h = Stranger => Port[i] \in Taken) /\ (h \in Processes => Port[h] = Port[i])
  BY <1>3 DEF HoldersListen
<1>5. OwnPort(i) /\ h = Nobody => polls[i] = MaxPolls \/ server[i] = "panicked"
  BY <1>2 DEF PortKept
<1> HIDE DEF h
<1> USE <1>1, <1>3
<1>6. LauncherTypeOK'
  BY DEF LauncherTypeOK
<1>7. HoldersListen' /\ FileKept'
  BY DEF HoldersListen, FileKept
<1>14. AskedAtPort'
  BY <1>13 DEF LauncherTypeOK, AskedAtPort
<1>8. CommandsRun'
  BY <1>2 DEF LauncherTypeOK, CommandsRun
<1>9. PortKept'
  BY <1>4 DEF LauncherTypeOK, PortKept
<1>10. MisledOnlyBySharing'
  BY DEF LauncherTypeOK, MisledOnlyBySharing
<1>11. ReadyWhenRun'
  BY <1>5 DEF LauncherTypeOK, ReadyWhenRun
<1>12. ZeroMeansSuccess'
  BY DEF ZeroMeansSuccess
<1> QED BY <1>6, <1>7, <1>8, <1>9, <1>10, <1>11, <1>12, <1>14

LEMMA EndCommandKeeps ==
  ASSUME LauncherInv, NEW i \in Processes, EndCommand(i)
  PROVE  LauncherInv'
<1> USE LauncherAssumption DEF LauncherInv, Runs
<1>1. /\ command[i] = "running" /\ asking[i] = Nobody
      /\ command' = [command EXCEPT ![i] = "ended"]
      /\ UNCHANGED <<main, server, polls, holder, ca, asking, results, asked>>
  BY DEF EndCommand
<1>2. PICK c \in Codes : code' = [code EXCEPT ![i].command = c]
  BY DEF EndCommand
<1>3. /\ code' \in [Processes -> [command : Codes \cup {"none"},
                                  exit : {"zero", "nonzero", "panic", "none"}]]
      /\ \A j \in Processes : /\ code'[j].exit = code[j].exit
                              /\ j # i => code'[j].command = code[j].command
  BY <1>2 DEF LauncherTypeOK
<1> USE <1>1
<1>4. LauncherTypeOK'
  BY <1>3 DEF LauncherTypeOK
<1>5. HoldersListen' /\ FileKept' /\ AskedAtPort' /\ PortKept'
  BY DEF HoldersListen, FileKept, AskedAtPort, PortKept
<1>6. CommandsRun'
  BY <1>3 DEF LauncherTypeOK, CommandsRun
<1>7. MisledOnlyBySharing' /\ ReadyWhenRun'
  BY DEF MisledOnlyBySharing, ReadyWhenRun
<1>8. ZeroMeansSuccess'
  BY <1>3 DEF LauncherTypeOK, ZeroMeansSuccess
<1> QED BY <1>4, <1>5, <1>6, <1>7, <1>8

LEMMA LauncherInvNext ==
  ASSUME LauncherInv, [LauncherNext]_launcherVars
  PROVE  LauncherInv'
<1>1. ASSUME NEW i \in Processes, LauncherStep(i)
      PROVE  LauncherInv'
  <2>1. CASE MainStep(i)
    BY <2>1, MainEarlyKeeps, PollKeeps, RunCommandKeeps, ExitsKeep DEF MainStep
  <2>2. CASE RunFails(i) \/ Stop(i)
    BY <2>2, ExitsKeep
  <2>3. CASE Bind(i) \/ ServerPanics(i) \/ Answer(i)
    BY <2>3, BindKeeps, ServerPanicsKeeps, AnswerKeeps
  <2>4. CASE Ask(i) \/ EndCommand(i)
    BY <2>4, AskKeeps, EndCommandKeeps
  <2> QED BY <1>1, <2>1, <2>2, <2>3, <2>4 DEF LauncherStep
<1>2. CASE UNCHANGED launcherVars
  BY <1>2 DEF launcherVars, LauncherInv, LauncherTypeOK, HoldersListen, CommandsRun,
     PortKept, FileKept, AskedAtPort, MisledOnlyBySharing, ReadyWhenRun, ZeroMeansSuccess, Runs
<1> QED BY <1>1, <1>2 DEF LauncherNext, AllOver

-----------------------------------------------------------------------------
(* The theorems. *)

\* What holds of the processes in every state.
THEOREM LauncherInvariant == LauncherSpec => []LauncherInv
BY LauncherInvInit, LauncherInvNext, PTL DEF LauncherSpec

\* LauncherTypeOK: the tasks of a process stay within their states (main.rs).
THEOREM LauncherTypes == LauncherSpec => []LauncherTypeOK
<1>1. LauncherInv => LauncherTypeOK
  BY DEF LauncherInv
<1> QED BY <1>1, LauncherInvariant, PTL

\* MisledOnlyBySharing: another overlay is taken for a command's own only where
\* two processes share both port and file, and its own is distrusted only where
\* they share the file, in whatever order they start, write, bind and exit.
THEOREM LauncherSharingTells == LauncherSpec => []MisledOnlyBySharing
<1>1. LauncherInv => MisledOnlyBySharing
  BY DEF LauncherInv
<1> QED BY <1>1, LauncherInvariant, PTL

\* ReadyWhenRun: the loop that polls the port does what it is for.
THEOREM LauncherReady == LauncherSpec => []ReadyWhenRun
<1>1. LauncherInv => ReadyWhenRun
  BY DEF LauncherInv
<1> QED BY <1>1, LauncherInvariant, PTL

\* ZeroMeansSuccess: the exit status is not better than that of the command.
THEOREM LauncherSuccess == LauncherSpec => []ZeroMeansSuccess
<1>1. LauncherInv => ZeroMeansSuccess
  BY DEF LauncherInv
<1> QED BY <1>1, LauncherInvariant, PTL

-----------------------------------------------------------------------------
(* What is left to happen to a process. *)

MainAhead(s) ==
  CASE s = "start" -> 8 [] s = "exported" -> 7 [] s = "polling" -> 4 [] s = "ready" -> 3
    [] s = "waiting" -> 1 [] s = "serving" -> 1 [] OTHER -> 0
ServerAhead(s) == CASE s = "none" -> 3 [] s = "starting" -> 2 [] s = "listening" -> 1
                    [] OTHER -> 0
CommandAhead(s) == CASE s = "none" -> 2 [] s = "running" -> 1 [] OTHER -> 0

\* Polls and requests of the command that it may still make, the second with
\* their answers.
AsksAhead(i) ==
  (MaxAsks - asked[i]) + (MaxAsks - asked[i]) + (IF asking[i] = Nobody THEN 0 ELSE 1)

Left(i) ==
  MainAhead(main[i]) + ServerAhead(server[i]) + CommandAhead(command[i])
    + (MaxPolls - polls[i]) + AsksAhead(i)

LEMMA AheadTypes ==
  ASSUME LauncherTypeOK, NEW i \in Processes
  PROVE  /\ \A s : MainAhead(s) \in Nat /\ ServerAhead(s) \in Nat /\ CommandAhead(s) \in Nat
         /\ MaxPolls - polls[i] \in Nat /\ AsksAhead(i) \in Nat /\ Left(i) \in Nat
<1>1. \A s : MainAhead(s) \in Nat
  BY DEF MainAhead
<1>2. \A s : ServerAhead(s) \in Nat /\ CommandAhead(s) \in Nat
  BY DEF ServerAhead, CommandAhead
<1>3. polls[i] \in 0..MaxPolls /\ asked[i] \in 0..MaxAsks
  BY DEF LauncherTypeOK
<1>4. MaxPolls - polls[i] \in Nat /\ MaxAsks - asked[i] \in Nat
  BY <1>3, LauncherAssumption
<1>5. AsksAhead(i) \in Nat
  BY <1>4 DEF AsksAhead
<1>6. Left(i) \in Nat
  BY <1>1, <1>2, <1>4, <1>5 DEF Left
<1> QED BY <1>1, <1>2, <1>4, <1>5, <1>6

\* A step of a process takes from what is left to it, and from no other.
LEMMA StepsDown ==
  ASSUME LauncherInv, NEW i \in Processes, LauncherStep(i)
  PROVE  /\ Left(i)' < Left(i)
         /\ \A j \in Processes \ {i} : Left(j)' = Left(j)
<1> USE DEF MainGoes, ServerGoes, Exit
<1>1. LauncherTypeOK
  BY DEF LauncherInv
<1>2. \A j \in Processes \ {i} :
        /\ main'[j] = main[j] /\ server'[j] = server[j] /\ command'[j] = command[j]
        /\ polls'[j] = polls[j] /\ asked'[j] = asked[j] /\ asking'[j] = asking[j]
  BY <1>1 DEF LauncherTypeOK, LauncherStep, MainStep, ExportCa, StartServer, PollHit,
     PollMiss, PollsOver, RunCommand, ExitWithCommand, RunFails, Stop, Bind,
     ServerPanics, Answer, Answered, Ask, EndCommand
<1>3. \A j \in Processes \ {i} : Left(j)' = Left(j)
  BY <1>2 DEF Left, AsksAhead
<1>4. /\ MainAhead(main[i]) \in Nat /\ MainAhead(main'[i]) \in Nat
      /\ ServerAhead(server[i]) \in Nat /\ ServerAhead(server'[i]) \in Nat
      /\ CommandAhead(command[i]) \in Nat /\ CommandAhead(command'[i]) \in Nat
      /\ MaxPolls - polls[i] \in Nat /\ AsksAhead(i) \in Nat
      /\ Left(i) = MainAhead(main[i]) + ServerAhead(server[i]) + CommandAhead(command[i])
                    + (MaxPolls - polls[i]) + AsksAhead(i)
      /\ Left(i)' = MainAhead(main'[i]) + ServerAhead(server'[i])
                    + CommandAhead(command'[i]) + (MaxPolls - polls'[i]) + AsksAhead(i)'
  BY <1>1, AheadTypes DEF Left
<1>5. CASE main' # main /\ UNCHANGED <<polls, asked, asking>>
  <2>1. AsksAhead(i)' = AsksAhead(i)
    BY <1>5 DEF AsksAhead
  <2>2. MainAhead(main'[i]) + ServerAhead(server'[i]) + CommandAhead(command'[i])
          < MainAhead(main[i]) + ServerAhead(server[i]) + CommandAhead(command[i])
    <3>1. CASE ExportCa(i) \/ PollHit(i) \/ PollsOver(i)
      <4>1. /\ \/ main[i] = "start" /\ main'[i] = "exported"
               \/ main[i] = "polling" /\ main'[i] = "ready"
            /\ server' = server /\ command' = command
        BY <1>1, <3>1 DEF ExportCa, PollHit, PollsOver, LauncherTypeOK
      <4>2. MainAhead(main'[i]) < MainAhead(main[i])
        BY <4>1 DEF MainAhead
      <4> QED BY <4>1, <4>2, <1>4
    <3>2. CASE StartServer(i)
      <4>1. /\ main[i] = "exported" /\ main'[i] \in {"polling", "serving"}
            /\ server'[i] = "starting" /\ command' = command
        BY <1>1, <3>2 DEF StartServer, LauncherTypeOK
      <4>2. MainAhead(main'[i]) + 3 <= MainAhead(main[i]) /\ ServerAhead(server'[i]) = 2
        BY <4>1 DEF MainAhead, ServerAhead
      <4> QED BY <4>1, <4>2, <1>4
    <3>3. CASE RunCommand(i)
      <4>1. /\ main[i] = "ready" /\ main'[i] = "waiting"
            /\ command'[i] = "running" /\ server' = server
        BY <1>1, <3>3 DEF RunCommand, LauncherTypeOK
      <4>2. /\ MainAhead(main'[i]) + 2 = MainAhead(main[i])
            /\ CommandAhead(command'[i]) = 1
        BY <4>1 DEF MainAhead, CommandAhead
      <4> QED BY <4>1, <4>2, <1>4
    <3>4. CASE RunFails(i) \/ ExitWithCommand(i) \/ Stop(i) \/ ServerPanics(i)
      <4>1. main[i] # "exited"
        BY <3>4 DEF RunFails, ExitWithCommand, Stop, ServerPanics, LauncherInv,
           CommandsRun
      <4>2. main'[i] = "exited" /\ server'[i] = "gone" /\ command' = command
        BY <1>1, <1>5, <3>4 DEF RunFails, ExitWithCommand, Stop, ServerPanics,
           LauncherTypeOK
      <4>3. main[i] \in {"start", "exported", "polling", "ready", "waiting", "serving"}
        BY <1>1, <4>1 DEF LauncherTypeOK
      <4>4. /\ MainAhead(main'[i]) < MainAhead(main[i])
            /\ ServerAhead(server'[i]) = 0
        BY <4>2, <4>3 DEF MainAhead, ServerAhead
      <4> QED BY <4>2, <4>4, <1>4
    <3> QED BY <1>5, <3>1, <3>2, <3>3, <3>4 DEF LauncherStep, MainStep, PollMiss, Bind,
            Answer, Answered, Ask, EndCommand
  <2> QED BY <1>3, <1>4, <1>5, <2>1, <2>2
<1>6. CASE PollMiss(i)
  <2>1. /\ polls[i] \in Nat /\ polls[i] < MaxPolls /\ polls'[i] = polls[i] + 1
        /\ UNCHANGED <<main, server, command, asked, asking>>
    BY <1>1, <1>6 DEF PollMiss, LauncherTypeOK
  <2>2. MaxPolls - polls'[i] < MaxPolls - polls[i] /\ AsksAhead(i)' = AsksAhead(i)
    BY <2>1, LauncherAssumption DEF AsksAhead
  <2>3. MaxPolls - polls'[i] \in Nat
    BY <2>1, LauncherAssumption
  <2> QED BY <1>3, <1>4, <2>1, <2>2, <2>3
<1>7. CASE Bind(i) \/ (ServerPanics(i) /\ main' = main)
  <2>1. /\ \/ server[i] = "starting" /\ server'[i] \in {"listening", "panicked"}
           \/ server[i] = "listening" /\ server'[i] = "panicked"
        /\ UNCHANGED <<main, polls, command, asked, asking>>
    <3>1. CASE Bind(i)
      BY <1>1, <3>1 DEF Bind, LauncherTypeOK
    <3>2. CASE ServerPanics(i) /\ i \in Executing
      BY <1>1, <3>2 DEF ServerPanics, LauncherTypeOK
    <3>3. CASE ServerPanics(i) /\ i \notin Executing
      <4>1. main'[i] = "exited" /\ main[i] # "exited"
        BY <1>1, <3>3 DEF ServerPanics, LauncherInv, CommandsRun, LauncherTypeOK
      <4> QED BY <1>7, <3>3, <4>1 DEF Bind
    <3> QED BY <1>7, <3>1, <3>2, <3>3
  <2>2. ServerAhead(server'[i]) < ServerAhead(server[i]) /\ AsksAhead(i)' = AsksAhead(i)
    BY <2>1 DEF ServerAhead, AsksAhead
  <2> QED BY <1>3, <1>4, <2>1, <2>2
<1>8. CASE EndCommand(i)
  <2>1. /\ command[i] = "running" /\ command'[i] = "ended"
        /\ UNCHANGED <<main, server, polls, asked, asking>>
    BY <1>1, <1>8 DEF EndCommand, LauncherTypeOK
  <2>2. CommandAhead(command'[i]) < CommandAhead(command[i])
        /\ AsksAhead(i)' = AsksAhead(i)
    BY <2>1 DEF CommandAhead, AsksAhead
  <2> QED BY <1>3, <1>4, <2>1, <2>2
<1>9. CASE Answer(i) \/ Ask(i)
  <2>1. /\ asked[i] \in 0..MaxAsks /\ UNCHANGED <<main, server, polls, command>>
        /\ \/ asked' = asked /\ asking[i] # Nobody /\ asking'[i] = Nobody
           \/ asked[i] < MaxAsks /\ asked'[i] = asked[i] + 1 /\ asking[i] = Nobody
    BY <1>1, <1>9 DEF Answer, Answered, Ask, LauncherTypeOK
  <2>2. AsksAhead(i)' < AsksAhead(i) /\ AsksAhead(i)' \in Nat
    BY <2>1, LauncherAssumption DEF AsksAhead
  <2> QED BY <1>3, <1>4, <2>1, <2>2
<1>10. UNCHANGED <<polls, asked, asking>> \/ PollMiss(i) \/ Answer(i) \/ Ask(i)
  BY DEF LauncherStep, MainStep, ExportCa, StartServer, PollHit, PollsOver,
     RunCommand, ExitWithCommand, RunFails, Stop, Bind, ServerPanics, EndCommand
<1>11. main' # main \/ PollMiss(i) \/ Answer(i) \/ Ask(i) \/ EndCommand(i) \/ Bind(i)
       \/ ServerPanics(i)
  BY <1>1 DEF LauncherTypeOK, LauncherStep, MainStep, ExportCa, StartServer, PollHit,
     PollsOver, RunCommand, ExitWithCommand, RunFails, Stop
<1> QED BY <1>3, <1>5, <1>6, <1>7, <1>8, <1>9, <1>10, <1>11

\* Every process has a bounded number of steps ahead of it, whatever it shares with
\* others and whatever fails, if its command makes a bounded number of requests
\* (MaxAsks): the polls are bounded by main.rs:193, and nothing is started again.
\* A step of one process takes nothing from another.
THEOREM LauncherRunsDown ==
  LauncherSpec =>
    /\ [](\A i \in Processes : Left(i) \in Nat)
    /\ [][\E i \in Processes :
            Left(i)' < Left(i) /\ \A j \in Processes \ {i} : Left(j)' = Left(j)]_launcherVars
<1>1. LauncherInv => \A i \in Processes : Left(i) \in Nat
  BY AheadTypes DEF LauncherInv
<1>2. LauncherInv /\ [LauncherNext]_launcherVars =>
        [\E i \in Processes :
            Left(i)' < Left(i) /\ \A j \in Processes \ {i} : Left(j)' = Left(j)]_launcherVars
  <2> SUFFICES ASSUME LauncherInv, LauncherNext, ~UNCHANGED launcherVars
               PROVE  \E i \in Processes :
                        Left(i)' < Left(i) /\ \A j \in Processes \ {i} : Left(j)' = Left(j)
    OBVIOUS
  <2>1. PICK i \in Processes : LauncherStep(i)
    BY DEF LauncherNext, AllOver
  <2>2. Left(i)' < Left(i) /\ \A j \in Processes \ {i} : Left(j)' = Left(j)
    BY <2>1, StepsDown
  <2> QED BY <2>2
<1>3. LauncherSpec => [](\A i \in Processes : Left(i) \in Nat)
  BY <1>1, LauncherInvariant, PTL
<1>4. LauncherSpec =>
        [][\E i \in Processes :
            Left(i)' < Left(i) /\ \A j \in Processes \ {i} : Left(j)' = Left(j)]_launcherVars
  BY <1>2, LauncherInvariant, PTL DEF LauncherSpec
<1> QED BY <1>3, <1>4

-----------------------------------------------------------------------------
(* A process that runs has something to do, or somebody has for it. *)

\* The steps that a process with a command may take alone: the guards of the main
\* task, of the end of the command, and of the answer the command waits for.
GoesOn(i) ==
  \/ main[i] \in {"start", "exported", "ready"}
  \/ main[i] = "polling" /\ (polls[i] < MaxPolls \/ polls[i] = MaxPolls)
  \/ main[i] = "waiting" /\ command[i] = "ended"
  \/ command[i] = "running" /\ asking[i] = Nobody
  \/ asking[i] # Nobody

NeverBlocked == \A i \in Executing : Runs(i) => GoesOn(i)

\* A main task waits for a command it has started, and serves if it has none.
WaitsForCommand ==
  \A i \in Processes :
    /\ main[i] = "waiting" => command[i] \in {"running", "ended"}
    /\ main[i] = "serving" => i \notin Executing

LEMMA WaitsForCommandStep ==
  ASSUME LauncherTypeOK, WaitsForCommand, [LauncherNext]_launcherVars
  PROVE  WaitsForCommand'
<1>1. CASE UNCHANGED <<main, command>>
  BY <1>1 DEF WaitsForCommand
<1>2. ASSUME NEW i \in Processes, LauncherStep(i)
      PROVE  WaitsForCommand'
  <2>1. /\ \A j \in Processes \ {i} : main'[j] = main[j] /\ command'[j] = command[j]
        /\ \/ main'[i] = main[i] /\ command'[i] \in {command[i], "ended"}
           \/ main'[i] \in {"exported", "polling", "ready", "exited"}
           \/ main'[i] = "serving" /\ i \notin Executing
           \/ main'[i] = "waiting" /\ command'[i] = "running"
    <3> USE <1>2 DEF LauncherTypeOK, MainGoes
    <3>1. CASE ExportCa(i) \/ StartServer(i)
      BY <3>1 DEF ExportCa, StartServer
    <3>2. CASE PollHit(i) \/ PollMiss(i) \/ PollsOver(i)
      BY <3>2 DEF PollHit, PollMiss, PollsOver
    <3>3. CASE RunCommand(i)
      BY <3>3 DEF RunCommand
    <3>4. CASE ExitWithCommand(i) \/ RunFails(i) \/ Stop(i)
      BY <3>4 DEF ExitWithCommand, RunFails, Stop, Exit
    <3>5. CASE ServerPanics(i)
      BY <3>5 DEF ServerPanics, Exit
    <3>6. CASE Bind(i) \/ Answer(i) \/ Ask(i)
      BY <3>6 DEF Bind, Answer, Answered, Ask
    <3>7. CASE EndCommand(i)
      BY <3>7 DEF EndCommand
    <3> QED BY <1>2, <3>1, <3>2, <3>3, <3>4, <3>5, <3>6, <3>7
         DEF LauncherStep, MainStep
  <2> QED BY <2>1 DEF WaitsForCommand
<1> QED BY <1>1, <1>2 DEF LauncherNext, AllOver, launcherVars

\* The main task is blocked while the command runs, and the command while it
\* waits for an answer; but never does a process with a command, whoever holds its
\* port and whatever failed, come to a place where it can only wait (main.rs:204).
\* With LauncherRunsDown: the half of Exits that is no matter of fairness.
THEOREM LauncherNeverBlocked == LauncherSpec => []NeverBlocked
<1>1. LauncherInit => WaitsForCommand
  BY DEF LauncherInit, WaitsForCommand
<1>2. LauncherTypeOK /\ WaitsForCommand => NeverBlocked
  <2> SUFFICES ASSUME LauncherTypeOK, WaitsForCommand, NEW i \in Executing, Runs(i)
               PROVE  GoesOn(i)
    BY DEF NeverBlocked
  <2>1. /\ i \in Processes
        /\ main[i] \in {"start", "exported", "polling", "ready", "waiting", "serving"}
        /\ polls[i] \in 0..MaxPolls /\ MaxPolls \in Nat
    BY LauncherAssumption DEF LauncherTypeOK, Runs
  <2>2. main[i] # "serving" /\ (main[i] = "waiting" => command[i] \in {"running", "ended"})
    BY <2>1 DEF WaitsForCommand
  <2> QED BY <2>1, <2>2 DEF GoesOn
<1> QED BY <1>1, <1>2, WaitsForCommandStep, LauncherTypes, PTL DEF LauncherSpec

=============================================================================
