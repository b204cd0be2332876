------------------------------- MODULE Pocket -------------------------------
(***************************************************************************)
(* The executors of the pocket test case and the part of its core that     *)
(* creates them and replays their logs:                                    *)
(*                                                                         *)
(*   - New, NewABTest, NewDMTest, Start and Stop of                        *)
(*     testcase/pocket/pkg/executor/executor.go;                           *)
(*   - generateExecutorOption and initConnectionWithoutSchema of           *)
(*     testcase/pocket/pkg/core/connection.go;                             *)
(*   - reproduce and reproduceFromDir of .../core/reproduce.go.            *)
(*                                                                         *)
(* A constructor opens its connections one after the other, then its       *)
(* logger, and returns at the first error; it names the log files after    *)
(* its kind and the id of the executor.  A later run of the program, with  *)
(* Options.Reproduce set, selects log files of the directory by name.      *)
(*                                                                         *)
(* A file name is a record [kind, suffix]; the suffix is <<id>> for "-id"  *)
(* and <<>> for none.  The loops singleTest, abTest and dmTest, and what   *)
(* is done with the selected files, are not in the repository.             *)
(***************************************************************************)
EXTENDS Integers, Sequences, FiniteSets

CONSTANT MaxID      \* the executors have ids 0 .. MaxID

ASSUME MaxID \in Nat

VARIABLES
    mode,           \* Core.cfg.Mode
    logging,        \* Options.Path is not empty
    reproducing,    \* Options.Reproduce
    alive,          \* the process has not exited
    building,       \* building[id]: the constructor call in progress
    execs,          \* execs[id]: the Executor the constructor returned
    loop,           \* loop[id]: the test Start runs in its goroutine
    open,           \* the connections that are open, as <<id, number>>
    dir,            \* the log files in Options.Path
    reproduced,     \* reproduceFromDir has made its selection
    logFiles        \* the files reproduceFromDir selected

vars == <<mode, logging, reproducing, alive, building, execs, loop, open,
          dir, reproduced, logFiles>>

Ids == 0 .. MaxID

Modes == {"single", "tiflash", "abtest", "binlog", "tiflash-abtest",
          "tiflash-binlog", "dm"}
Constructors == {"New", "NewABTest", "NewDMTest"}
Loops == {"singleTest", "abTest", "dmTest"}

NoBuild == [ctor |-> "none", opened |-> 0, start |-> FALSE]
NoExec  == [mode |-> "none", conns |-> 0]
NoLoop  == "none"

LogNames ==
    [kind : {"single-conn", "single-test", "ab-conn1", "ab-conn2", "ab-test",
             "dm-conn1", "dm-conn2", "dm-conn3", "dm-test"},
     suffix : {<<>>} \cup {<<id>> : id \in Ids \ {0}}]

TypeOK ==
    /\ mode \in Modes
    /\ logging \in BOOLEAN /\ reproducing \in BOOLEAN /\ alive \in BOOLEAN
    /\ building \in [Ids -> [ctor : Constructors \cup {"none"}, opened : 0 .. 3,
                             start : BOOLEAN]]
    /\ execs \in [Ids -> [mode : {"single", "abtest", "dm", "none"},
                          conns : 0 .. 3]]
    /\ loop \in [Ids -> Loops \cup {NoLoop}]
    /\ open \subseteq Ids \X (1 .. 3)
    /\ dir \subseteq LogNames
    /\ reproduced \in BOOLEAN
    /\ logFiles \subseteq dir

Init ==
    /\ mode \in Modes
    /\ logging \in BOOLEAN
    /\ reproducing = FALSE
    /\ alive = TRUE
    /\ building = [id \in Ids |-> NoBuild]
    /\ execs = [id \in Ids |-> NoExec]
    /\ loop = [id \in Ids |-> NoLoop]
    /\ open = {}
    /\ dir = {}
    /\ reproduced = FALSE
    /\ logFiles = {}

-----------------------------------------------------------------------------
\* Mutated forms of the definitions below: a suffix for the id 0 as well, a
\* switch of Start whose first case takes "abtest" too.
LogSuffix_Always(id) == <<id>>

Dispatch_SingleFirst(m) ==
    IF m \in {"single", "abtest"} THEN "singleTest" ELSE "dmTest"

-----------------------------------------------------------------------------
\* initConnectionWithoutSchema: the constructor its switch calls.  The dm
\* test calls NewDMTest itself.
Constructor(m) ==
    CASE m \in {"single", "tiflash"} -> "New"
      [] m \in {"abtest", "binlog", "tiflash-abtest", "tiflash-binlog"} -> "NewABTest"
      [] m = "dm" -> "NewDMTest"

\* generateExecutorOption: LogSuffix.
LogSuffix(id) == IF id > 0 THEN <<id>> ELSE <<>>

\* generateExecutorOption: Mute.
Mute == reproducing

\* What the three constructors differ in: the connections they open, the
\* mode they give the Executor, the names of the logs, and whether the
\* logger of the test log is muted as the connections are.
NewShape ==
    [conns |-> 1, mode |-> "single", muted |-> FALSE,
     connLog |-> <<"single-conn">>, testLog |-> "single-test"]

NewABTestShape ==
    [conns |-> 2, mode |-> "abtest", muted |-> Mute,
     connLog |-> <<"ab-conn1", "ab-conn2">>, testLog |-> "ab-test"]

NewDMTestShape ==
    [conns |-> 3, mode |-> "dm", muted |-> Mute,
     connLog |-> <<"dm-conn1", "dm-conn2", "dm-conn3">>, testLog |-> "dm-test"]

Shape ==
    [New |-> NewShape, NewABTest |-> NewABTestShape, NewDMTest |-> NewDMTestShape]

\* The file a logger writes: none when opt.Log is empty or it is muted.
Logged(name, muted) == IF logging /\ ~muted THEN {name} ELSE {}

Building(id) == building[id] # NoBuild
Remaining(id) == building[id].opened < Shape[building[id].ctor].conns

\* A constructor is called for the id.
Construct(id) ==
    /\ alive /\ ~Building(id) /\ execs[id] = NoExec
    /\ \E start \in BOOLEAN :
        /\ Constructor(mode) # "NewDMTest" => start
        /\ building' = [building EXCEPT
                            ![id] = [ctor |-> Constructor(mode), opened |-> 0,
                                     start |-> start]]
    /\ UNCHANGED <<mode, logging, reproducing, alive, execs, loop, open, dir,
                   reproduced, logFiles>>

\* The next connection.New of the constructor succeeds.
Connect(id) ==
    /\ alive /\ Building(id) /\ Remaining(id)
    /\ LET b == building[id]
           k == b.opened + 1
       IN  /\ open' = open \cup {<<id, k>>}
           /\ dir' = dir \cup Logged([kind |-> Shape[b.ctor].connLog[k],
                                      suffix |-> LogSuffix(id)], Mute)
           /\ building' = [building EXCEPT ![id].opened = k]
    /\ UNCHANGED <<mode, logging, reproducing, alive, execs, loop, reproduced,
                   logFiles>>

\* connection.New or logger.New fails: the constructor returns nil and the
\* error.  The connections it opened stay open.
ConstructFails(id) ==
    /\ alive /\ Building(id)
    /\ building' = [building EXCEPT ![id] = NoBuild]
    /\ UNCHANGED <<mode, logging, reproducing, alive, execs, loop, open, dir,
                   reproduced, logFiles>>

\* The test Start runs for an Executor of the mode.
Dispatch(m) ==
    CASE m = "single" -> "singleTest"
      [] m = "abtest" -> "abTest"
      [] m = "dm"     -> "dmTest"

\* logger.New succeeds, the Executor is made and, unless NewDMTest was told
\* not to, Start is run in a goroutine of its own.
Build(id) ==
    /\ alive /\ Building(id) /\ ~Remaining(id)
    /\ LET b == building[id]
           s == Shape[b.ctor]
       IN  /\ dir' = dir \cup Logged([kind |-> s.testLog, suffix |-> LogSuffix(id)],
                                     s.muted)
           /\ execs' = [execs EXCEPT ![id] = [mode |-> s.mode, conns |-> s.conns]]
           /\ loop' = [loop EXCEPT
                            ![id] = IF b.start THEN Dispatch(s.mode) ELSE NoLoop]
    /\ building' = [building EXCEPT ![id] = NoBuild]
    /\ UNCHANGED <<mode, logging, reproducing, alive, open, reproduced, logFiles>>

\* Start, called by the owner of an Executor that NewDMTest did not start.
\* "One Start for one executor": that the owner calls it once, and not on an
\* executor its constructor has started, is taken for granted here; the
\* callers are not in the repository.
Start(id) ==
    /\ alive /\ execs[id] # NoExec /\ loop[id] = NoLoop
    /\ loop' = [loop EXCEPT ![id] = Dispatch(execs[id].mode)]
    /\ UNCHANGED <<mode, logging, reproducing, alive, building, execs, open,
                   dir, reproduced, logFiles>>

\* Stop: os.Exit(0).
Stop(id) ==
    /\ alive /\ execs[id] # NoExec
    /\ alive' = FALSE
    /\ UNCHANGED <<mode, logging, reproducing, building, execs, loop, open, dir,
                   reproduced, logFiles>>

\* The environment: the program is run again on the same directory, this
\* time to reproduce.
RunAgain ==
    /\ ~reproducing
    /\ reproducing' = TRUE
    /\ alive' = TRUE
    /\ building' = [id \in Ids |-> NoBuild]
    /\ execs' = [id \in Ids |-> NoExec]
    /\ loop' = [id \in Ids |-> NoLoop]
    /\ open' = {}
    /\ UNCHANGED <<mode, logging, dir, reproduced, logFiles>>

\* abTestLogPattern and binlogTestLogPattern: the kind of file, "-", digits.
AbTestLogPattern     == "ab-test"
BinlogTestLogPattern == "single-test"

\* regexp.MatchString on the name of a file.
Matches(pattern, name) == name.kind = pattern /\ name.suffix # <<>>

\* The test of reproduceFromDir on one file of the directory.
Selected(name) ==
    \/ mode = "abtest" /\ Matches(AbTestLogPattern, name)
    \/ mode = "binlog" /\ Matches(BinlogTestLogPattern, name)

\* reproduce with a directory: reproduceFromDir up to the call of readLogs.
Reproduce ==
    /\ alive /\ reproducing /\ logging /\ ~reproduced
    /\ reproduced' = TRUE
    /\ logFiles' = {name \in dir : Selected(name)}
    /\ UNCHANGED <<mode, logging, reproducing, alive, building, execs, loop,
                   open, dir>>

\* reproduce without one: log.Fatal("empty dir").
ReproduceFatal ==
    /\ alive /\ reproducing /\ ~logging
    /\ alive' = FALSE
    /\ UNCHANGED <<mode, logging, reproducing, building, execs, loop, open, dir,
                   reproduced, logFiles>>

Next ==
    \/ \E id \in Ids :
        \/ Construct(id) \/ Connect(id) \/ ConstructFails(id) \/ Build(id)
        \/ Start(id) \/ Stop(id)
    \/ RunAgain \/ Reproduce \/ ReproduceFatal

Spec == Init /\ [][Next]_vars

-----------------------------------------------------------------------------
\* The test log a constructor names for the executor id.
TestLogOf(ctor, id) == [kind |-> Shape[ctor].testLog, suffix |-> LogSuffix(id)]

(***************************************************************************)
(* An executor whose loop runs has the connections the loop works on:      *)
(* singleTest one, abTest two, dmTest three, all of them open.  The mode   *)
(* is a string that the constructor writes and the switch of Start reads;  *)
(* the two must agree for every constructor, and NewDMTest may leave the   *)
(* start to its caller.                                                    *)
(***************************************************************************)
LoopHasItsConnections ==
    LET uses == [singleTest |-> 1, abTest |-> 2, dmTest |-> 3]
    IN  \A id \in Ids :
            loop[id] # NoLoop =>
                /\ execs[id].conns = uses[loop[id]]
                /\ \A k \in 1 .. uses[loop[id]] : <<id, k>> \in open

(***************************************************************************)
(* In the modes reproduceFromDir has a pattern for, it finds the test log  *)
(* of every executor with an id above 0 that the core created in that      *)
(* mode.  The patterns are named after the modes: abTestLogPattern for     *)
(* "abtest", binlogTestLogPattern for "binlog".                            *)
(***************************************************************************)
ReproduceFindsTheLogs ==
    mode \in {"abtest", "binlog"} /\ reproduced =>
        \A id \in Ids \ {0} :
            TestLogOf(Constructor(mode), id) \in dir =>
                TestLogOf(Constructor(mode), id) \in logFiles
=============================================================================
