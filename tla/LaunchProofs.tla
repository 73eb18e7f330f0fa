----------------------------- MODULE LaunchProofs -----------------------------
(***************************************************************************)
(* Proofs about Launch, for any number of files, ids and entries: init and  *)
(* the directory first, then a start, then the registry and the shutdown.   *)
(***************************************************************************)
EXTENDS Launch, TLAPS

-----------------------------------------------------------------------------
(* What each group of steps leaves alone. *)

LEMMA CommandsLeave == Commands => UNCHANGED <<cfg, serveVars>>
BY DEF Commands, RunInit, RunProxy, Edit, InitOnly, startVars

LEMMA InitStepsLeave == InitSteps => UNCHANGED <<proxy, startVars, serveVars>>
BY DEF InitSteps, Skips, CopyBegins, CopyEnds, InitReports, InitDies, InitOnly

LEMMA OthersLeaveFiles ==
  LoadSteps \/ ProxySteps \/ Shutdown \/ (\E id \in Ids : Use(id)) => UNCHANGED initVars
BY DEF LoadSteps, Load, TakeEntry, LoadEnds, LoadRaises, ProxySteps, RegisterNext, Startup,
       Stopped, Close, Shutdown, Use

-----------------------------------------------------------------------------
(* init.  While it runs, the files before the one it is at were written or      *)
(* skipped, a copy that was begun is not whole yet, and the plain servers file  *)
(* is none that it copies.                                                      *)

States == {"absent", "cut", "template", "own"}
InitRuns == [at : 0..(NFiles + 1), force : BOOLEAN, copying : BOOLEAN,
             written : SUBSET Templates, skipped : SUBSET Templates]

FilesOK == disk \in [Files -> States] /\ init \in InitRuns /\ crashed \in BOOLEAN

Progress ==
  /\ init.at > 0 => init.written \cup init.skipped = {f \in Templates : f < init.at}
  /\ \A f \in init.written : disk[f] = "template"
  /\ \A f \in init.skipped : disk[f] # "absent" /\ ~init.force
  /\ init.copying => init.at \in Templates /\ disk[init.at] = "cut"
  /\ init.at = 0 => init = NoInit

Cuts ==
  /\ disk[Plain] # "cut"
  /\ \A f \in Files : disk[f] = "cut" => crashed \/ (Copying(f) /\ init.copying)

FilesInv == FilesOK /\ Progress /\ Cuts

LEMMA NoInitRun ==
  /\ NoInit \in InitRuns /\ NoInit.at = 0 /\ ~NoInit.copying
  /\ NoInit.written = {} /\ NoInit.skipped = {}
<1>1. 0 \in 0..(NFiles + 1)
  BY LaunchAssumption
<1> QED BY <1>1 DEF NoInit, InitRuns

\* One file more: those before the next one are those before this one and it.
LEMMA NextFile ==
  ASSUME NEW f \in Templates
  PROVE  /\ f + 1 \in 0..(NFiles + 1) /\ f + 1 # 0 /\ f > 0
         /\ {g \in Templates : g < f + 1} = {g \in Templates : g < f} \cup {f}
<1>1. f \in Nat /\ f > 0 /\ f <= NFiles /\ NFiles \in Nat /\ Templates \subseteq Nat
  BY LaunchAssumption DEF Templates
<1>2. \A g \in Nat : g < f + 1 <=> g < f \/ g = f
  BY <1>1
<1>3. f + 1 \in 0..(NFiles + 1) /\ f + 1 # 0
  BY <1>1
<1>4. {g \in Templates : g < f + 1} = {g \in Templates : g < f} \cup {f}
  BY <1>1, <1>2
<1> QED BY <1>1, <1>3, <1>4

LEMMA FilesInit == Init => FilesInv
<1> SUFFICES ASSUME Init PROVE FilesInv
  OBVIOUS
<1>1. /\ disk \in [Files -> States] /\ Plain \in Files /\ init = NoInit /\ crashed \in BOOLEAN
      /\ \A f \in Files : disk[f] = "absent"
  BY DEF Init, States, Files
<1>2. FilesOK
  BY <1>1, NoInitRun DEF FilesOK
<1>3. Progress
  BY <1>1, NoInitRun DEF Progress
<1> QED BY <1>1, <1>2, <1>3 DEF FilesInv, Cuts

LEMMA FilesCommands == FilesInv /\ Commands => FilesInv'
<1> SUFFICES ASSUME FilesInv, Commands PROVE FilesInv'
  OBVIOUS
<1> USE LaunchAssumption DEF FilesInv, FilesOK, InitRuns, Templates
<1>1. CASE RunInit
  <2>1. PICK force \in BOOLEAN : init' = [NoInit EXCEPT !.at = 1, !.force = force]
    BY <1>1 DEF RunInit
  <2>2. /\ init' \in InitRuns /\ init'.at = 1 /\ ~init'.copying /\ init'.written = {}
        /\ init'.skipped = {}
    <3>1. 1 \in 0..(NFiles + 1)
      OBVIOUS
    <3> QED BY <2>1, <3>1 DEF NoInit
  <2>3. {f \in Templates : f < 1} = {}
    OBVIOUS
  <2>4. UNCHANGED <<disk, crashed>> /\ init = NoInit
    BY <1>1 DEF RunInit, Idle, Progress
  <2>5. Progress'
    BY <2>2, <2>3, <2>4 DEF Progress
  <2>6. Cuts'
    BY <2>2, <2>4, NoInitRun DEF Cuts, Copying
  <2> QED BY <2>2, <2>4, <2>5, <2>6
<1>2. CASE RunProxy
  BY <1>2 DEF RunProxy, Progress, Cuts, Copying, initVars
<1>3. ASSUME NEW f \in Files, Edit(f) PROVE FilesInv'
  <2>1. /\ init = NoInit /\ UNCHANGED <<init, crashed>>
        /\ \E state \in {"own", "absent"} : disk' = [disk EXCEPT ![f] = state]
    BY <1>3 DEF Edit, Idle, Progress
  <2>2. FilesOK'
    BY <2>1 DEF States
  <2>3. Progress'
    BY <2>1 DEF Progress, NoInit
  <2>4. Cuts'
    BY <2>1 DEF Cuts, NoInit, Copying, Files, Plain
  <2> QED BY <2>2, <2>3, <2>4
<1> QED BY <1>1, <1>2, <1>3 DEF Commands

LEMMA FilesSteps == FilesInv /\ InitSteps => FilesInv'
<1> SUFFICES ASSUME FilesInv, InitSteps PROVE FilesInv'
  OBVIOUS
<1> USE LaunchAssumption DEF FilesInv
<1>0. /\ disk \in [Files -> States] /\ init \in InitRuns /\ crashed \in BOOLEAN
      /\ Templates \subseteq Nat \ {0} /\ Templates \subseteq Files /\ Plain \in Files \ Templates
  BY DEF FilesOK, Files, Templates, Plain
<1>1. CASE Skips
  <2>1. PICK f \in Templates :
          /\ init.at = f /\ ~init.copying /\ Kept(f)
          /\ init' = [init EXCEPT !.at = f + 1, !.skipped = @ \cup {f}]
          /\ UNCHANGED <<disk, crashed>>
    BY <1>1 DEF Skips, Copying
  <2>2. /\ init'.at = f + 1 /\ init'.skipped = init.skipped \cup {f}
        /\ init'.written = init.written /\ init'.force = init.force
        /\ ~init'.copying /\ init' \in InitRuns
    BY <1>0, <2>1, NextFile DEF InitRuns
  <2>3. Progress'
    BY <2>1, <2>2, NextFile DEF Progress, Kept
  <2> QED BY <1>0, <2>1, <2>2, <2>3 DEF FilesOK, Cuts
<1>2. CASE CopyBegins
  <2>1. PICK f \in Templates :
          /\ init.at = f /\ ~init.copying /\ ~Kept(f)
          /\ disk' = [disk EXCEPT ![f] = "cut"]
          /\ init' = [init EXCEPT !.copying = TRUE]
          /\ UNCHANGED crashed
    BY <1>2 DEF CopyBegins, Copying
  <2>2. /\ init'.at = f /\ init'.skipped = init.skipped
        /\ init'.written = init.written /\ init'.force = init.force
        /\ init'.copying /\ init' \in InitRuns
    BY <1>0, <2>1 DEF InitRuns
  <2>3. disk' \in [Files -> States] /\ disk'[f] = "cut"
        /\ \A g \in Files \ {f} : disk'[g] = disk[g]
    BY <1>0, <2>1 DEF States
  <2>4. f \notin init.written /\ f \notin init.skipped /\ f # 0
    BY <1>0, <2>1 DEF Progress
  <2>5. Progress'
    BY <1>0, <2>1, <2>2, <2>3, <2>4 DEF Progress, InitRuns
  <2>6. Cuts'
    BY <1>0, <2>1, <2>2, <2>3 DEF Cuts, Copying
  <2> QED BY <2>1, <2>2, <2>3, <2>5, <2>6, <1>0 DEF FilesOK
<1>3. CASE CopyEnds
  <2>1. PICK f \in Templates :
          /\ init.at = f /\ init.copying
          /\ disk' = [disk EXCEPT ![f] = "template"]
          /\ init' = [init EXCEPT !.at = f + 1, !.copying = FALSE, !.written = @ \cup {f}]
          /\ UNCHANGED crashed
    BY <1>3 DEF CopyEnds, Copying
  <2>2. /\ init'.at = f + 1 /\ init'.skipped = init.skipped
        /\ init'.written = init.written \cup {f} /\ init'.force = init.force
        /\ ~init'.copying /\ init' \in InitRuns
    BY <1>0, <2>1, NextFile DEF InitRuns
  <2>3. disk' \in [Files -> States] /\ disk'[f] = "template"
        /\ \A g \in Files \ {f} : disk'[g] = disk[g]
    BY <1>0, <2>1 DEF States
  <2>4. Progress'
    BY <1>0, <2>1, <2>2, <2>3, NextFile DEF Progress, InitRuns
  <2>5. Cuts'
    BY <1>0, <2>1, <2>2, <2>3 DEF Cuts, Copying
  <2> QED BY <2>1, <2>2, <2>3, <2>4, <2>5, <1>0 DEF FilesOK
<1>4. CASE InitReports \/ InitDies
  <2>1. init' = NoInit /\ UNCHANGED disk /\ crashed' \in BOOLEAN
    BY <1>0, <1>4 DEF InitReports, InitDies
  <2>2. NoInit \in InitRuns /\ NoInit.written = {} /\ NoInit.skipped = {} /\ ~NoInit.copying
        /\ NoInit.at = 0
    BY DEF NoInit, InitRuns, Templates
  <2>3. ASSUME NEW f \in Files, disk[f] = "cut" PROVE crashed'
    <3>1. CASE InitDies
      BY <3>1 DEF InitDies
    <3>2. CASE InitReports
      <4>1. init.at > NFiles /\ init.at \in Nat /\ crashed' = (crashed /\ ~init.force)
        BY <1>0, <3>2 DEF InitReports, InitRuns
      <4>2. ~Copying(f) /\ crashed
        BY <4>1, <2>3 DEF Cuts, Copying, Templates
      <4>3. CASE init.force
        <5>1. init.at > 0 /\ {g \in Templates : g < init.at} = Templates
          BY <4>1 DEF Templates
        <5>2. init.written = Templates
          BY <4>3, <5>1 DEF Progress
        <5>3. f \in Templates
          BY <2>3 DEF Cuts, Files
        <5> QED BY <2>3, <5>2, <5>3 DEF Progress
      <4> QED BY <4>1, <4>2, <4>3
    <3> QED BY <1>4, <3>1, <3>2
  <2>4. Cuts'
    BY <2>1, <2>3 DEF Cuts
  <2>5. Progress'
    BY <2>1, <2>2 DEF Progress
  <2> QED BY <1>0, <2>1, <2>2, <2>4, <2>5 DEF FilesOK
<1> QED BY <1>1, <1>2, <1>3, <1>4 DEF InitSteps

LEMMA FilesStep == FilesInv /\ [Next]_vars => FilesInv'
<1>1. FilesInv /\ UNCHANGED initVars => FilesInv'
  BY DEF initVars, FilesInv, FilesOK, Progress, Cuts, Copying
<1> QED BY <1>1, FilesCommands, FilesSteps, OthersLeaveFiles DEF Next, vars

LEMMA FilesInvariant == Spec => []FilesInv
BY FilesInit, FilesStep, PTL DEF Spec

\* A part of a template is only what an interrupted init left, and --force repairs it.
THEOREM ForceAlwaysRepairs == Spec => []ForceRepairs
<1>1. FilesInv => ForceRepairs
  <2> SUFFICES ASSUME FilesInv, init.at > NFiles
               PROVE  /\ init.written \cup init.skipped = Templates
    BY DEF FilesInv, Progress, Cuts, ForceRepairs
  <2>1. init.at \in Nat /\ NFiles \in Nat \ {0}
    BY LaunchAssumption DEF FilesInv, FilesOK, InitRuns
  <2>2. init.at > 0 /\ {f \in Templates : f < init.at} = Templates
    BY <2>1 DEF Templates
  <2> QED BY <2>2 DEF FilesInv, Progress
<1> QED BY <1>1, FilesInvariant, PTL

\* init without --force keeps what the operator wrote, at every step of it.
THEOREM EditsAlwaysSurvive == Spec => EditsSurvive
<1> DEFINE Survive == init.at > 0 /\ ~init.force =>
                        \A f \in Files : disk[f] = "own" => disk'[f] = "own"
<1>1. FilesInv /\ [Next]_vars => Survive
  <2> SUFFICES ASSUME FilesInv, [Next]_vars, init.at > 0, ~init.force,
                      NEW f \in Files, disk[f] = "own"
               PROVE  disk'[f] = "own"
    OBVIOUS
  <2>0. disk \in [Files -> States] /\ Templates \subseteq Files
    BY DEF FilesInv, FilesOK, Files
  <2>1. CASE Commands
    <3>1. ~Idle
      BY DEF Idle, FilesInv, FilesOK, InitRuns
    <3> QED BY <2>1, <3>1 DEF Commands, RunInit, RunProxy, Edit
  <2>2. CASE CopyBegins
    BY <2>0, <2>2 DEF CopyBegins, Kept
  <2>3. CASE CopyEnds
    BY <2>0, <2>3 DEF CopyEnds, Copying, FilesInv, Progress
  <2>4. CASE Skips \/ InitReports \/ InitDies
    BY <2>4 DEF Skips, InitReports, InitDies
  <2>5. CASE UNCHANGED initVars
    BY <2>5 DEF initVars
  <2> QED BY <2>1, <2>2, <2>3, <2>4, <2>5, OthersLeaveFiles DEF Next, InitSteps, vars
<1>2. Survive => [init.at > 0 /\ ~init.force =>
                    \A f \in Files : disk[f] = "own" => disk'[f] = "own"]_vars
  OBVIOUS
<1> QED BY <1>1, FilesInvariant, PTL DEF Spec, EditsSurvive

-----------------------------------------------------------------------------
(* A start.  While it loads, the environment is the shell's with the arguments  *)
(* over it; what was loaded is a configuration.                                 *)

Sources == {"unset", "shell", "odd", "arg"}
Usable == {e \in Entries : e.form # "invalid"}

GivenOK == given \in [shell : Shells, args : Arguments] /\ environ \in [Settings -> Sources]
Told == proxy = "loading" => environ = Overridden(given.shell, given.args)

CfgOK ==
  /\ cfg \in [protected : BOOLEAN, number : Sources \cup {"default"},
              path : {"none", "plain", "config", "shell", "arg"}, servers : Seq(Usable)]
  /\ Len(cfg.servers) <= MaxEntries

StartInv == GivenOK /\ Told /\ CfgOK

LEMMA Nothing ==
  /\ NotGiven \in [shell : Shells, args : Arguments]
  /\ NotGiven.shell \in [Settings -> Sources]
  /\ NoCfg \in [protected : BOOLEAN, number : Sources \cup {"default"},
                path : {"none", "plain", "config", "shell", "arg"}, servers : Seq(Usable)]
  /\ NoCfg.servers = << >> /\ Len(NoCfg.servers) = 0 /\ 0 <= MaxEntries
<1>1. << >> \in Seq(Usable) /\ Len(<< >>) = 0
  OBVIOUS
<1>2. 0 <= MaxEntries
  BY LaunchAssumption
<1>3. [s \in Settings |-> "unset"] \in Shells /\ [s \in Settings |-> "none"] \in Arguments
  BY DEF Shells, Arguments, Settings
<1> QED BY <1>1, <1>2, <1>3 DEF NotGiven, NoCfg, Shells, Sources

LEMMA StartInit == Init => StartInv
BY Nothing DEF Init, StartInv, GivenOK, Told, CfgOK

LEMMA StartLoad == StartInv /\ Load => StartInv'
<1> SUFFICES ASSUME StartInv, Load PROVE StartInv'
  OBVIOUS
<1>1. /\ proxy' = "reading" /\ given' = NotGiven /\ environ' = NotGiven.shell
      /\ cfg' = [protected |-> Protected, number |-> Number, path |-> ServersPath,
                 servers |-> << >>]
  BY DEF Load
<1>2. /\ Protected \in BOOLEAN /\ Number \in Sources \cup {"default"}
      /\ ServersPath \in {"none", "plain", "config", "shell", "arg"}
  BY DEF StartInv, GivenOK, Protected, Number, ServersPath, Found, Settings, Sources
<1>3. << >> \in Seq(Usable) /\ Len(<< >>) = 0 /\ 0 <= MaxEntries
  BY Nothing
<1>4. CfgOK'
  BY <1>1, <1>2, <1>3 DEF CfgOK
<1> QED BY <1>1, <1>4, Nothing DEF StartInv, GivenOK, Told

LEMMA StartTakes == StartInv /\ TakeEntry => StartInv'
<1> SUFFICES ASSUME StartInv, TakeEntry PROVE StartInv'
  OBVIOUS
<1>1. PICK e \in Entries : Taken(e) /\ cfg' = [cfg EXCEPT !.servers = Append(@, e)]
  BY DEF TakeEntry
<1>2. /\ UNCHANGED <<proxy, given, environ>> /\ Len(cfg.servers) < MaxEntries
      /\ cfg.servers \in Seq(Usable) /\ MaxEntries \in Nat
  BY LaunchAssumption DEF TakeEntry, StartInv, CfgOK
<1>3. e \in Usable
  BY <1>1 DEF Usable, Taken
<1>4. /\ Append(cfg.servers, e) \in Seq(Usable)
      /\ Len(Append(cfg.servers, e)) <= MaxEntries
  BY <1>2, <1>3
<1>5. CfgOK'
  BY <1>1, <1>4 DEF StartInv, CfgOK
<1> QED BY <1>2, <1>5 DEF StartInv, GivenOK, Told

LEMMA StartStep == StartInv /\ [Next]_vars => StartInv'
<1> SUFFICES ASSUME StartInv, [Next]_vars PROVE StartInv'
  OBVIOUS
<1>1. CASE RunProxy
  <2>1. PICK shell \in Shells, args \in Arguments :
          /\ given' = [shell |-> shell, args |-> args]
          /\ environ' = Overridden(shell, args)
    BY <1>1 DEF RunProxy
  <2>2. Overridden(shell, args) \in [Settings -> Sources]
    BY DEF Overridden, Shells, Sources
  <2>3. UNCHANGED cfg
    BY <1>1 DEF RunProxy
  <2> QED BY <2>1, <2>2, <2>3 DEF StartInv, GivenOK, Told, CfgOK
<1>2. CASE LoadRaises \/ Stopped
  BY <1>2, Nothing DEF LoadRaises, Stopped, Exits, StartInv, GivenOK, Told, CfgOK
<1>3. ASSUME UNCHANGED startVars, proxy' = "loading" => proxy = "loading" PROVE StartInv'
  BY <1>3 DEF startVars, StartInv, GivenOK, Told, CfgOK
<1>4. CASE RunInit \/ InitSteps \/ (\E f \in Files : Edit(f)) \/ UNCHANGED vars
  BY <1>3, <1>4, InitStepsLeave DEF RunInit, Edit, InitOnly, vars
<1>5. CASE LoadEnds \/ RegisterNext \/ Startup \/ Shutdown
  BY <1>3, <1>5 DEF LoadEnds, RegisterNext, Startup, Shutdown
<1>6. ASSUME NEW id \in Ids, Close(id) \/ Use(id) PROVE StartInv'
  BY <1>3, <1>6 DEF Close, Use
<1> QED BY <1>1, <1>2, <1>4, <1>5, <1>6, StartLoad, StartTakes
        DEF Next, Commands, LoadSteps, ProxySteps

LEMMA StartInvariant == Spec => []StartInv
BY StartInit, StartStep, PTL DEF Spec

\* Every setting comes from its argument, else from the environment, else from its
\* default, and no servers file is taken for another.
THEOREM StartsAreAsTold == Spec => StartsAsTold
<1> DEFINE AsTold ==
      proxy = "loading" /\ proxy' = "reading" =>
       /\ cfg'.number = CASE Source("number") = "argument"    -> "arg"
                          [] Source("number") = "environment" -> "shell"
                          [] Source("number") = "default"     -> "default"
       /\ cfg'.protected <=> \/ Source("switch") = "default"
                            \/ /\ Source("switch") = "environment"
                               /\ given.shell["switch"] = "shell"
       /\ Source("path") = "argument" => cfg'.path = "arg"
       /\ Source("path") = "environment" /\ given.shell["path"] = "shell"
            => cfg'.path = "shell"
       /\ cfg'.path = "plain" => disk[1] = "absent"
<1>1. StartInv /\ [Next]_vars => AsTold
  <2> SUFFICES ASSUME StartInv, [Next]_vars, proxy = "loading", proxy' = "reading"
               PROVE  AsTold
    OBVIOUS
  <2>1. Load
    BY InitStepsLeave DEF Next, Commands, RunInit, RunProxy, Edit, Idle, LoadSteps, TakeEntry,
       LoadEnds, LoadRaises, Exits, ProxySteps, RegisterNext, Startup, Stopped, Close,
       Shutdown, Use, vars
  <2>2. /\ cfg'.protected = Protected /\ cfg'.number = Number /\ cfg'.path = ServersPath
        /\ environ = Overridden(given.shell, given.args)
    BY <2>1 DEF Load, StartInv, Told
  <2>3. \A s \in Settings :
          environ[s] = IF given.args[s] = "given" THEN "arg" ELSE given.shell[s]
    BY <2>2 DEF Overridden
  <2>4. given.shell \in [Settings -> {"unset", "shell", "odd"}]
    BY DEF StartInv, GivenOK, Shells
  <2>5. \A s \in Settings :
          \/ Source(s) = "argument" /\ environ[s] = "arg"
          \/ /\ Source(s) = "environment"
             /\ environ[s] = given.shell[s] /\ environ[s] \in {"shell", "odd"}
          \/ Source(s) = "default" /\ environ[s] = "unset"
    BY <2>3, <2>4 DEF Source
  <2>6. cfg'.protected <=> \/ Source("switch") = "default"
                           \/ /\ Source("switch") = "environment"
                              /\ given.shell["switch"] = "shell"
    BY <2>2, <2>5 DEF Protected, Settings
  <2>7. cfg'.number = CASE Source("number") = "argument"    -> "arg"
                        [] Source("number") = "environment" -> "shell"
                        [] Source("number") = "default"     -> "default"
    <3>1. Number # "odd"
      BY <2>1 DEF Load
    <3> QED BY <2>2, <2>5, <3>1 DEF Number, Settings
  <2>8. /\ Source("path") = "argument" => cfg'.path = "arg"
        /\ Source("path") = "environment" /\ given.shell["path"] = "shell"
             => cfg'.path = "shell"
        /\ cfg'.path = "plain" => disk[1] = "absent"
    BY <2>2, <2>5 DEF ServersPath, Found, Settings
  <2> QED BY <2>6, <2>7, <2>8
<1> QED BY <1>1, StartInvariant, PTL DEF Spec, StartsAsTold

-----------------------------------------------------------------------------
(* The registry.  It serves an id by the last entry for it, of those that       *)
(* startup() has been through, that can be registered.                          *)

Phases == {"down", "loading", "reading", "starting", "serving", "closing"}
UsableFor(id) == {i \in 1..entry : cfg.servers[i].id = id /\ cfg.servers[i].form # "refused"}
Serves(id) == /\ registry[id] \in UsableFor(id) \cup {0}
              /\ \A i \in UsableFor(id) : i <= registry[id]

RegistryInv ==
  /\ proxy \in Phases
  /\ entry \in 0..Len(cfg.servers) /\ registry \in [Ids -> 0..MaxEntries]
  /\ proxy \in {"down", "loading", "reading"} => entry = 0
  /\ proxy \in {"serving", "closing"} => entry = Len(cfg.servers)
  /\ \A id \in Ids : Serves(id)

LEMMA NoneServed ==
  ASSUME entry' = 0, \A id \in Ids : registry'[id] = 0
  PROVE  \A id \in Ids : Serves(id)'
<1>1. \A i \in 1..0 : FALSE
  OBVIOUS
<1> QED BY <1>1 DEF Serves, UsableFor

LEMMA RegistryInit == Init => RegistryInv
<1> SUFFICES ASSUME Init PROVE RegistryInv
  OBVIOUS
<1>1. /\ proxy = "down" /\ entry = 0 /\ registry = [i \in Ids |-> 0] /\ cfg.servers = << >>
  BY Nothing DEF Init
<1>2. 0 \in 0..Len(cfg.servers) /\ 0 \in 0..MaxEntries
  BY <1>1, Nothing
<1>3. \A i \in 1..0 : FALSE
  OBVIOUS
<1> QED BY <1>1, <1>2, <1>3 DEF RegistryInv, Phases, Serves, UsableFor

\* As long as no entry was registered, what is configured does not matter.
LEMMA RegistryEmpty ==
  ASSUME RegistryInv, entry = 0, entry' = 0, UNCHANGED registry, CfgOK',
         proxy' \in {"down", "loading", "reading"}
  PROVE  RegistryInv'
<1>1. Len(cfg'.servers) \in Nat
  BY DEF CfgOK
<1>2. \A id \in Ids : registry[id] = 0
  <2>1. \A i \in 1..0 : FALSE
    OBVIOUS
  <2> QED BY <2>1 DEF RegistryInv, Serves, UsableFor
<1> QED BY <1>1, <1>2, NoneServed DEF RegistryInv, Phases

LEMMA RegistryNext ==
  ASSUME CfgOK, RegistryInv, RegisterNext
  PROVE  RegistryInv'
<1>1. /\ proxy = "starting" /\ entry < Len(cfg.servers) /\ entry' = entry + 1
      /\ Register(entry + 1) /\ UNCHANGED <<proxy, cfg>>
  BY DEF RegisterNext, startVars
<1>2. /\ cfg.servers \in Seq(Usable) /\ Len(cfg.servers) \in Nat /\ Len(cfg.servers) <= MaxEntries
      /\ entry \in Nat /\ MaxEntries \in Nat /\ registry \in [Ids -> 0..MaxEntries]
  BY LaunchAssumption DEF CfgOK, RegistryInv
<1> DEFINE n == entry + 1
           e == cfg.servers[n]
<1>3. n \in 1..Len(cfg.servers) /\ n \in 0..MaxEntries /\ n \in Nat /\ n # 0
  BY <1>1, <1>2
<1>4. e \in Usable /\ e.id \in Ids
  BY <1>2, <1>3 DEF Usable, Entries
<1>5. 1..n = (1..entry) \cup {n} /\ \A i \in 1..entry : i <= n
  BY <1>2
<1>6. CASE e.form = "refused"
  <2>1. UNCHANGED registry
    BY <1>1, <1>6 DEF Register
  <2>2. \A id \in Ids : UsableFor(id)' = UsableFor(id)
    BY <1>1, <1>5, <1>6 DEF UsableFor
  <2> QED BY <1>1, <1>2, <1>3, <2>1, <2>2 DEF RegistryInv, Serves
<1>7. CASE e.form # "refused"
  <2>1. registry' = [registry EXCEPT ![e.id] = n]
    BY <1>1, <1>7 DEF Register
  <2>2. registry' \in [Ids -> 0..MaxEntries]
    <3> HIDE DEF n, e
    <3> QED BY <1>2, <1>3, <2>1
  <2>3. ASSUME NEW id \in Ids, id # e.id PROVE Serves(id)'
    <3>1. UsableFor(id)' = UsableFor(id)
      BY <1>1, <1>5, <2>3 DEF UsableFor
    <3>2. registry'[id] = registry[id]
      BY <1>2, <2>1, <2>3
    <3> QED BY <3>1, <3>2 DEF RegistryInv, Serves
  <2>4. ASSUME NEW id \in Ids, id = e.id PROVE Serves(id)'
    <3>1. UsableFor(id)' = UsableFor(id) \cup {n}
      <4>1. UsableFor(id)' =
              {i \in 1..n : cfg.servers[i].id = id /\ cfg.servers[i].form # "refused"}
        BY <1>1 DEF UsableFor
      <4>2. cfg.servers[n].id = id /\ cfg.servers[n].form # "refused"
        BY <1>7, <2>4
      <4> HIDE DEF n
      <4> QED BY <1>5, <4>1, <4>2 DEF UsableFor
    <3>2. registry'[id] = n
      BY <1>2, <2>1, <2>4
    <3>3. \A i \in UsableFor(id) : i <= n
      BY <1>5 DEF UsableFor
    <3>4. n <= n
      BY <1>3
    <3> HIDE DEF n, e
    <3> QED BY <3>1, <3>2, <3>3, <3>4 DEF Serves
  <2>5. entry' \in 0..Len(cfg'.servers)
    BY <1>1, <1>3
  <2> HIDE DEF n, e
  <2> QED BY <1>1, <2>2, <2>3, <2>4, <2>5 DEF RegistryInv
<1> QED BY <1>6, <1>7

LEMMA RegistryStep == StartInv /\ StartInv' /\ RegistryInv /\ [Next]_vars => RegistryInv'
<1> SUFFICES ASSUME CfgOK, CfgOK', RegistryInv, [Next]_vars PROVE RegistryInv'
  BY DEF StartInv
<1>1. ASSUME UNCHANGED <<entry, registry, cfg, proxy>> PROVE RegistryInv'
  BY <1>1 DEF RegistryInv, Serves, UsableFor
<1>2. CASE Commands \/ InitSteps
  <2>1. CASE RunProxy
    BY <2>1, RegistryEmpty DEF RunProxy, Idle, RegistryInv, serveVars
  <2>2. CASE RunInit \/ (\E f \in Files : Edit(f)) \/ InitSteps
    BY <1>1, <2>2, InitStepsLeave DEF RunInit, Edit, InitOnly, startVars, serveVars
  <2> QED BY <1>2, <2>1, <2>2 DEF Commands
<1>3. CASE Load \/ TakeEntry \/ LoadRaises
  BY <1>3, RegistryEmpty DEF Load, TakeEntry, LoadRaises, Exits, RegistryInv, serveVars
<1>4. CASE LoadEnds \/ Startup \/ Shutdown
  BY <1>4 DEF LoadEnds, Startup, Shutdown, startVars, serveVars, RegistryInv, Serves, UsableFor,
     Phases
<1>5. CASE Stopped
  <2>1. /\ proxy' = "down" /\ entry' = 0 /\ registry' = [i \in Ids |-> 0]
        /\ 0 \in 0..MaxEntries /\ 0 \in 0..Len(cfg'.servers)
    BY <1>5, LaunchAssumption DEF Stopped, Exits, CfgOK
  <2> QED BY <2>1, NoneServed DEF RegistryInv, Phases
<1>6. ASSUME NEW id \in Ids, Close(id) \/ Use(id) PROVE RegistryInv'
  BY <1>1, <1>6 DEF Close, Use, startVars
<1>7. CASE UNCHANGED vars
  BY <1>1, <1>7 DEF vars, startVars, serveVars
<1> QED BY <1>2, <1>3, <1>4, <1>5, <1>6, <1>7, RegistryNext DEF Next, LoadSteps, ProxySteps

LEMMA RegistryInvariant == Spec => []RegistryInv
BY RegistryInit, RegistryStep, StartInvariant, PTL DEF Spec

\* An id is served by the last entry for it that can be, whatever bad or duplicate
\* entries come in between and after.
THEOREM LastUsableAlwaysServes == Spec => []LastUsableServes
<1>1. RegistryInv => LastUsableServes
  BY DEF RegistryInv, Serves, UsableFor, LastUsableServes
<1> QED BY <1>1, RegistryInvariant, PTL

-----------------------------------------------------------------------------
(* Backends are open only while the proxy serves or shuts down.  What is open   *)
(* then has been closed with an error or is still to be closed.                 *)

OpenInv ==
  /\ open \subseteq Ids /\ toClose \subseteq Ids /\ errors \subseteq open
  /\ proxy \notin {"serving", "closing"} => open = {}
  /\ proxy # "closing" => toClose = {} /\ errors = {}
  /\ proxy = "closing" => open \subseteq errors \cup toClose
  /\ errors \cap toClose = {}
  /\ \A id \in open : registry[id] # 0

LEMMA OpenStep == OpenInv /\ [Next]_vars => OpenInv'
<1> SUFFICES ASSUME OpenInv, [Next]_vars PROVE OpenInv'
  OBVIOUS
<1>1. ASSUME UNCHANGED <<open, toClose, errors>>, open = {},
             proxy \notin {"serving", "closing"}, proxy' # "closing"
      PROVE  OpenInv'
  BY <1>1 DEF OpenInv
<1>2. CASE InitSteps \/ RunInit \/ (\E f \in Files : Edit(f)) \/ UNCHANGED vars
  BY <1>2, InitStepsLeave DEF RunInit, Edit, InitOnly, vars, serveVars, OpenInv
<1>3. CASE RunProxy \/ LoadSteps \/ RegisterNext
  BY <1>1, <1>3 DEF RunProxy, Idle, LoadSteps, Load, TakeEntry, LoadEnds, LoadRaises, Exits,
     RegisterNext, serveVars, OpenInv
<1>4. CASE Startup \/ Shutdown \/ Stopped
  BY <1>4 DEF Startup, Shutdown, Stopped, Exits, serveVars, OpenInv
<1>5. ASSUME NEW id \in Ids, Use(id) PROVE OpenInv'
  BY <1>5 DEF Use, IsServed, OpenInv
<1>6. ASSUME NEW id \in Ids, Close(id) PROVE OpenInv'
  BY <1>6 DEF Close, AfterError, OpenInv
<1> QED BY <1>2, <1>3, <1>4, <1>5, <1>6 DEF Next, Commands, ProxySteps

LEMMA OpenInvariant == Spec => []OpenInv
<1>1. Init => OpenInv
  BY DEF Init, OpenInv
<1> QED BY <1>1, OpenStep, PTL DEF Spec

\* What is open can be closed, and a shutdown leaves open only what raised in
\* close(), also when another one raised before it.
THEOREM ShutdownAlwaysCloses == Spec => []ShutdownClosesAll
<1>1. OpenInv => ShutdownClosesAll
  BY DEF OpenInv, ShutdownClosesAll
<1> QED BY <1>1, OpenInvariant, PTL

\* The variables have their types: files, arguments, what was loaded from them, and
\* the registry.
THEOREM TypeCorrect == Spec => []TypeOK
<1>1. FilesInv /\ StartInv /\ RegistryInv /\ OpenInv => TypeOK
  BY DEF FilesInv, FilesOK, States, InitRuns, StartInv, GivenOK, CfgOK, Sources, Usable,
     RegistryInv, Phases, OpenInv, TypeOK
<1> QED BY <1>1, FilesInvariant, StartInvariant, RegistryInvariant, OpenInvariant, PTL

=============================================================================
