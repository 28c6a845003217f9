------------------------------ MODULE Launcher ------------------------------
(***************************************************************************)
(* The processes of cargo-overlay-registry on one machine, from start to   *)
(* exit (src/src/main.rs).  Each exports the certificate of its CA to a    *)
(* file, binds its port and serves; with a command to execute (`--`), the  *)
(* server is a task of the process, and its main task waits for the port   *)
(* to answer, runs the command with the proxy set in its environment,      *)
(* blocks until it has ended, and exits.                                   *)
(* Processes share the machine's ports and, unless --ca-cert-out says      *)
(* otherwise, the file of the certificate.                                 *)
(***************************************************************************)
EXTENDS Naturals

CONSTANTS
  Processes,  \* processes started, once each
  Executing,  \* those with a command to execute
  Ports, Files,
  Port,       \* --port, [Processes -> Ports]
  CaCertOut,  \* --ca-cert-out, [Processes -> Files \cup {NotGiven}]
  DefaultFile, NotGiven,
  Taken,      \* ports that a program of another kind listens on
  MaxPolls,   \* bound of the poll loop; 50 in the code
  MaxAsks,    \* bound: requests of a command
  MayFail,    \* may accept(), or the start of the command, fail?
  Nobody, Stranger

Codes == {"zero", "nonzero", "signal"}

ASSUME LauncherAssumption ==
  /\ Executing \subseteq Processes
  /\ Port \in [Processes -> Ports]
  /\ CaCertOut \in [Processes -> Files \cup {NotGiven}]
  /\ DefaultFile \in Files
  /\ Taken \subseteq Ports
  /\ MaxPolls \in Nat /\ MaxAsks \in Nat
  /\ MayFail \in BOOLEAN
  /\ Nobody # Stranger /\ {Nobody, Stranger} \cap Processes = {}

VARIABLES
  main,     \* where the main task of each process stands
  server,   \* the state of its server task
  polls,    \* polls of the port made
  holder,   \* who listens on each port
  ca,       \* whose certificate each file has
  command,  \* the state of the command
  asking,   \* who has the request the command waits for, or Nobody
  results,  \* history: what became of the requests of the command
  asked,    \* requests the command has made
  code      \* how the command ended, and the exit status of the process

launcherVars ==
  <<main, server, polls, holder, ca, command, asking, results, asked, code>>

LauncherInit ==
  /\ main = [i \in Processes |-> "start"]
  /\ server = [i \in Processes |-> "none"]
  /\ polls = [i \in Processes |-> 0]
  /\ holder = [p \in Ports |-> IF p \in Taken THEN Stranger ELSE Nobody]
  /\ ca = [f \in Files |-> Nobody]
  /\ command = [i \in Processes |-> "none"]
  /\ asking = [i \in Processes |-> Nobody]
  /\ results = [i \in Processes |-> {}]
  /\ asked = [i \in Processes |-> 0]
  /\ code = [i \in Processes |-> [command |-> "none", exit |-> "none"]]

MainGoes(i, s) == main' = [main EXCEPT ![i] = s]
ServerGoes(i, s) == server' = [server EXCEPT ![i] = s]
Release(i) == [p \in Ports |-> IF holder[p] = i THEN Nobody ELSE holder[p]]

\* What the end of a process leaves: its port is free, and requests it had not
\* answered fail.
Exit(i, status) ==
  /\ MainGoes(i, "exited")
  /\ ServerGoes(i, "gone")
  /\ holder' = Release(i)
  /\ code' = [code EXCEPT ![i].exit = status]

-----------------------------------------------------------------------------
(* The main task. *)

\* Where the certificate goes, and what the command is told to trust.
CaFileDefault(i) == DefaultFile                   \* slip: the option is ignored
CaFile(i) == IF CaCertOut[i] = NotGiven THEN DefaultFile ELSE CaCertOut[i]

\* The certificate is written before the port is bound.
ExportCa(i) ==
  /\ main[i] = "start"
  /\ ca' = [ca EXCEPT ![CaFile(i)] = i]
  /\ MainGoes(i, "exported")
  /\ UNCHANGED <<server, polls, holder, command, asking, results, asked, code>>

\* The server is a task of its own if there is a command to execute, and else
\* what the main task does from here on.
StartServer(i) ==
  /\ main[i] = "exported"
  /\ ServerGoes(i, "starting")
  /\ MainGoes(i, IF i \in Executing THEN "polling" ELSE "serving")
  /\ UNCHANGED <<polls, holder, ca, command, asking, results, asked, code>>

PollMissGivesUp(i) ==                             \* slip: one poll only
  /\ main[i] = "polling" /\ polls[i] < MaxPolls
  /\ holder[Port[i]] = Nobody
  /\ MainGoes(i, "ready")
  /\ UNCHANGED <<server, polls, holder, ca, command, asking, results, asked, code>>

\* A connection to the port: if anybody accepts it the server is thought ready.
PollHit(i) ==
  /\ main[i] = "polling" /\ polls[i] < MaxPolls
  /\ holder[Port[i]] # Nobody
  /\ MainGoes(i, "ready")
  /\ UNCHANGED <<server, polls, holder, ca, command, asking, results, asked, code>>

PollMissOnceMore(i) ==                            \* slip: one poll too many
  /\ main[i] = "polling" /\ polls[i] <= MaxPolls
  /\ holder[Port[i]] = Nobody
  /\ polls' = [polls EXCEPT ![i] = @ + 1]
  /\ UNCHANGED <<main, server, holder, ca, command, asking, results, asked, code>>
PollMiss(i) ==
  /\ main[i] = "polling" /\ polls[i] < MaxPolls
  /\ holder[Port[i]] = Nobody
  /\ polls' = [polls EXCEPT ![i] = @ + 1]
  /\ UNCHANGED <<main, server, holder, ca, command, asking, results, asked, code>>

PollsOver(i) ==
  /\ main[i] = "polling" /\ polls[i] = MaxPolls
  /\ MainGoes(i, "ready")
  /\ UNCHANGED <<server, polls, holder, ca, command, asking, results, asked, code>>

RunCommand(i) ==
  /\ main[i] = "ready"
  /\ MainGoes(i, "waiting")
  /\ command' = [command EXCEPT ![i] = "running"]
  /\ UNCHANGED <<server, polls, holder, ca, asking, results, asked, code>>

\* The command cannot be started: the main task panics.
RunFails(i) ==
  /\ MayFail
  /\ main[i] = "ready"
  /\ Exit(i, "panic")
  /\ UNCHANGED <<polls, ca, command, asking, results, asked>>

\* The status of the command is the exit status; a signal counts as 1.
ExitStatusLenient(c) == IF c = "nonzero" THEN c ELSE "zero"  \* slip: signals
ExitStatus(c) == IF c = "zero" THEN "zero" ELSE "nonzero"

ExitWithCommand(i) ==
  /\ main[i] = "waiting"
  /\ command[i] = "ended"
  /\ Exit(i, ExitStatus(code[i].command))
  /\ UNCHANGED <<polls, ca, command, asking, results, asked>>

-----------------------------------------------------------------------------
(* The server task, and the tasks of its connections. *)

Bind(i) ==
  /\ server[i] = "starting"
  /\ holder[Port[i]] = Nobody
  /\ holder' = [holder EXCEPT ![Port[i]] = i]
  /\ ServerGoes(i, "listening")
  /\ UNCHANGED <<main, polls, ca, command, asking, results, asked, code>>

\* A panic of the server ends its task; the process only if it is the main one.
ServerPanics(i) ==
  /\ \/ server[i] = "starting" /\ holder[Port[i]] # Nobody
     \/ server[i] = "listening" /\ MayFail
  /\ IF i \in Executing
       THEN /\ ServerGoes(i, "panicked")
            /\ holder' = Release(i)
            /\ UNCHANGED <<main, code>>
       ELSE Exit(i, "panic")
  /\ UNCHANGED <<polls, ca, command, asking, results, asked>>

\* A server without a command is stopped from outside.
Stop(i) ==
  /\ main[i] = "serving"
  /\ Exit(i, "nonzero")
  /\ UNCHANGED <<polls, ca, command, asking, results, asked>>

Runs(j) == main[j] # "exited"

\* What becomes of a request of process i that h accepted.  A proxy is believed
\* if the certificate file the command was told of has its CA.
Outcome(i, h) ==
  IF h = Stranger THEN "foreign"
  ELSE IF ~Runs(h) THEN "broken"
  ELSE IF ca[CaFile(i)] = h THEN IF h = i THEN "own" ELSE "foreign"
  ELSE IF h = i THEN "ownUntrusted" ELSE "foreignUntrusted"

Answered(i) ==
  /\ results' = [results EXCEPT ![i] = @ \cup {Outcome(i, asking[i])}]
  /\ asking' = [asking EXCEPT ![i] = Nobody]
  /\ UNCHANGED <<main, server, polls, holder, ca, command, asked, code>>

AnswerUnlessBlocked(i) ==                         \* slip: main task in the way
  /\ asking[i] # Nobody
  /\ asking[i] \in Processes => main[asking[i]] # "waiting"
  /\ Answered(i)

\* The task of a connection answers the request.  The workers of the runtime
\* run it although the main task of that process may be blocked.
Answer(i) == asking[i] # Nobody /\ Answered(i)

-----------------------------------------------------------------------------
(* The command. *)

\* It makes a request through the proxy it was told of: the port answers, or not.
Ask(i) ==
  /\ command[i] = "running" /\ asking[i] = Nobody
  /\ asked[i] < MaxAsks
  /\ asked' = [asked EXCEPT ![i] = @ + 1]
  /\ asking' = [asking EXCEPT ![i] = holder[Port[i]]]
  /\ results' = IF holder[Port[i]] = Nobody
                  THEN [results EXCEPT ![i] = @ \cup {"refused"}] ELSE results
  /\ UNCHANGED <<main, server, polls, holder, ca, command, code>>

EndCommand(i) ==
  /\ command[i] = "running" /\ asking[i] = Nobody
  /\ command' = [command EXCEPT ![i] = "ended"]
  /\ \E c \in Codes : code' = [code EXCEPT ![i].command = c]
  /\ UNCHANGED <<main, server, polls, holder, ca, asking, results, asked>>

MainStep(i) ==
  \/ ExportCa(i) \/ StartServer(i)
  \/ PollHit(i) \/ PollMiss(i) \/ PollsOver(i)
  \/ RunCommand(i) \/ ExitWithCommand(i)

LauncherStep(i) ==
  \/ MainStep(i) \/ RunFails(i) \/ Stop(i)
  \/ Bind(i) \/ ServerPanics(i) \/ Answer(i)
  \/ Ask(i) \/ EndCommand(i)

AllOver == (\A i \in Processes : ~Runs(i)) /\ UNCHANGED launcherVars

LauncherNext == (\E i \in Processes : LauncherStep(i)) \/ AllOver

\* Every task is run when it can; a command that need not wait for an answer
\* ends.  A server without a command runs until it is stopped.
LauncherFairness ==
  \A i \in Processes :
    /\ WF_launcherVars(MainStep(i))
    /\ WF_launcherVars(Bind(i) \/ ServerPanics(i))
    /\ WF_launcherVars(Answer(i))
    /\ WF_launcherVars(EndCommand(i))

LauncherSpec == LauncherInit /\ [][LauncherNext]_launcherVars /\ LauncherFairness

-----------------------------------------------------------------------------
LauncherTypeOK ==
  /\ main \in [Processes -> {"start", "exported", "polling", "ready", "waiting",
                             "serving", "exited"}]
  /\ server \in [Processes -> {"none", "starting", "listening", "panicked", "gone"}]
  /\ polls \in [Processes -> 0..MaxPolls]
  /\ holder \in [Ports -> Processes \cup {Nobody, Stranger}]
  /\ ca \in [Files -> Processes \cup {Nobody}]
  /\ command \in [Processes -> {"none", "running", "ended"}]
  /\ asking \in [Processes -> Processes \cup {Nobody, Stranger}]
  /\ results \in [Processes ->
                   SUBSET {"own", "foreign", "ownUntrusted", "foreignUntrusted",
                           "refused", "broken"}]
  /\ asked \in [Processes -> 0..MaxAsks]
  /\ code \in [Processes -> [command : Codes \cup {"none"},
                             exit : {"zero", "nonzero", "panic", "none"}]]

OwnPort(i) == Port[i] \notin Taken /\ \A j \in Processes : j # i => Port[j] # Port[i]
SharesPort(i, j) == j # i /\ Port[j] = Port[i]
SharesFile(i, j) ==
  /\ j # i
  /\ \/ CaCertOut[j] = CaCertOut[i]
     \/ {CaCertOut[i], CaCertOut[j]} \subseteq {NotGiven, DefaultFile}

\* What can go wrong with the requests of a command, by what its process was
\* told to share.  The certificate stands between two processes on one port:
\* a command takes another overlay for its own (and publishes there) only if
\* they share the file as well.  Its own server is distrusted only if another
\* process writes the same file.  On a shared port alone its requests fail.
MisledOnlyBySharing ==
  \A i \in Processes :
    /\ "foreign" \in results[i] =>
         Port[i] \in Taken \/ \E j \in Processes : SharesPort(i, j) /\ SharesFile(i, j)
    /\ "ownUntrusted" \in results[i] => \E j \in Processes : SharesFile(i, j)
    /\ results[i] \cap {"foreignUntrusted", "broken"} # {} =>
         \E j \in Processes : SharesPort(i, j)

\* The readiness wait works, on a port of its own: a request of the command is
\* refused only if the server gave up or every poll was in vain.
ReadyWhenRun ==
  \A i \in Processes :
    OwnPort(i) /\ "refused" \in results[i] =>
      polls[i] = MaxPolls \/ server[i] = "panicked" \/ ~Runs(i)

\* Success is reported only for a command that ran and succeeded: not for one
\* that was not started, nor for one killed by a signal.
ZeroMeansSuccess ==
  \A i \in Processes :
    code[i].exit = "zero" => command[i] = "ended" /\ code[i].command = "zero"

\* Every process with a command exits, whoever holds its port and whatever
\* fails: the main task, blocked until the command ends, never waits for a
\* command that waits for a task of the same process.
Exits == \A i \in Executing : <>(main[i] = "exited")

\* "run the command after the server starts" (src/src/main.rs:174), "Wait for
\* the server to be ready" (src/src/main.rs:192).
CommandAfterServer ==
  \A i \in Executing :
    command[i] = "running" => server[i] = "listening"

=============================================================================
