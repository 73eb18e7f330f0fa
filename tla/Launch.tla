-------------------------------- MODULE Launch --------------------------------
(***************************************************************************)
(* What an operator does with the command line, and what becomes of it:     *)
(* `behavry-proxy init` (cli.py, scaffold() of resources.py) over a         *)
(* directory with files of the operator's own, a start of the proxy that    *)
(* turns arguments and environment into a configuration (cli.py, config.py) *)
(* and its entries into a registry (main.py, proxy/registry.py), requests   *)
(* that open backends, and the shutdown that closes them.                   *)
(*                                                                         *)
(* A setting stands for all that the code treats alike, a file for its      *)
(* state.  The operator runs one command at a time: a proxy that serves     *)
(* reads neither the directory nor the environment again.                   *)
(***************************************************************************)
EXTENDS Integers, Sequences

CONSTANTS
  NFiles,     \* files that init writes, in its order; config/servers.yaml is the first
  Ids,        \* server ids
  MaxEntries  \* bound of the model: entries of a servers file

ASSUME LaunchAssumption == NFiles \in Nat \ {0} /\ MaxEntries \in Nat

Templates == 1..NFiles
Plain == 0                  \* servers.yaml in the working directory
Files == Templates \cup {Plain}

VARIABLES
  disk,      \* disk[f]: absent, cut (the copy ended early), template, own
  init,      \* the run of init: [at: next file, or 0 when there is none, ...]
  crashed,   \* history: an init ended early and none with --force was completed since
  proxy,     \* down, loading, reading, starting, serving, closing
  given,     \* history: environment of the shell and arguments of this start
  environ,   \* os.environ
  cfg,       \* the configuration that was loaded
  entry,     \* number of its entries that startup() has been through
  registry,  \* registry[id]: which entry of the configuration serves it, 0 for none
  open,      \* ids whose backend has a connection or a process
  toClose,   \* ids that close_all() has still to close
  errors     \* ids whose close() raised

initVars == <<disk, init, crashed>>
startVars == <<given, environ, cfg>>
serveVars == <<entry, registry, open, toClose, errors>>
vars == <<initVars, proxy, startVars, serveVars>>

-----------------------------------------------------------------------------
(* Settings: opa_fail_closed and the two other switches, the numbers, the path *)
(* of the servers file.  A value is named for where it comes from; "odd" is    *)
(* something other than true, no number, or the empty string.                  *)
Settings == {"switch", "number", "path"}
Shells == [Settings -> {"unset", "shell", "odd"}]

\* An argument is "blank" when Python takes it for false: --port 0, --config "".
Arguments ==
  {args \in [Settings -> {"none", "blank", "given"}] : args["switch"] # "blank"}

NoInit  == [at |-> 0, force |-> FALSE, copying |-> FALSE, written |-> {}, skipped |-> {}]
NoCfg   == [protected |-> TRUE, number |-> "default", path |-> "none", servers |-> << >>]
NotGiven == [shell |-> [s \in Settings |-> "unset"], args |-> [s \in Settings |-> "none"]]

\* An entry is invalid for MCPServerConfig, refused by register_server() (no URL,
\* no command, unknown transport), switched off, or good.
Entries == [id : Ids, form : {"good", "off", "refused", "invalid"}]

Init ==
  /\ disk = [f \in Files |-> "absent"] /\ init = NoInit /\ crashed = FALSE
  /\ proxy = "down"
  /\ given = NotGiven /\ environ = NotGiven.shell /\ cfg = NoCfg
  /\ entry = 0 /\ registry = [i \in Ids |-> 0]
  /\ open = {} /\ toClose = {} /\ errors = {}

Idle == proxy = "down" /\ init.at = 0

\* The operator writes a file or removes one.
Edit(f) ==
  /\ Idle
  /\ \E state \in {"own", "absent"} : disk' = [disk EXCEPT ![f] = state]
  /\ UNCHANGED <<init, crashed, proxy, startVars, serveVars>>

-----------------------------------------------------------------------------
(* behavry-proxy init [--force] *)
InitOnly == UNCHANGED <<proxy, startVars, serveVars>>

RunInit ==
  /\ Idle
  /\ \E force \in BOOLEAN : init' = [NoInit EXCEPT !.at = 1, !.force = force]
  /\ UNCHANGED <<disk, crashed>> /\ InitOnly

\* Slip: a file that is there is kept, --force or not.
KeptAlways(f) == disk[f] # "absent"
\* Slip: the sense of --force is turned round.
KeptWhenForced(f) == disk[f] # "absent" /\ init.force
Kept(f) == disk[f] # "absent" /\ ~init.force

Copying(f) == init.at = f /\ f \in Templates

Skips ==
  \E f \in Templates :
    /\ Copying(f) /\ ~init.copying /\ Kept(f)
    /\ init' = [init EXCEPT !.at = f + 1, !.skipped = @ \cup {f}]
    /\ UNCHANGED <<disk, crashed>> /\ InitOnly

\* shutil.copyfile() empties the file, then fills it.
CopyBegins ==
  \E f \in Templates :
    /\ Copying(f) /\ ~init.copying /\ ~Kept(f)
    /\ disk' = [disk EXCEPT ![f] = "cut"]
    /\ init' = [init EXCEPT !.copying = TRUE]
    /\ UNCHANGED crashed /\ InitOnly

CopyEnds ==
  \E f \in Templates :
    /\ Copying(f) /\ init.copying
    /\ disk' = [disk EXCEPT ![f] = "template"]
    /\ init' = [init EXCEPT !.at = f + 1, !.copying = FALSE, !.written = @ \cup {f}]
    /\ UNCHANGED crashed /\ InitOnly

InitReports ==
  /\ init.at > NFiles
  /\ init' = NoInit
  /\ crashed' = (crashed /\ ~init.force)
  /\ UNCHANGED disk /\ InitOnly

\* Interrupted, or a copy raised: the disk is full, a directory is read-only.
InitDies ==
  /\ init.at > 0
  /\ init' = NoInit /\ crashed' = TRUE
  /\ UNCHANGED disk /\ InitOnly

-----------------------------------------------------------------------------
(* behavry-proxy: arguments, environment, servers.yaml, registry *)
\* Slip: an argument only fills in what the environment leaves out.
OverriddenIfUnset(shell, args) ==
  [s \in Settings |-> IF args[s] = "given" /\ shell[s] = "unset" THEN "arg" ELSE shell[s]]

\* `if args.port:` and the like: a blank argument is passed over without a word.
Overridden(shell, args) ==
  [s \in Settings |-> IF args[s] = "given" THEN "arg" ELSE shell[s]]

RunProxy ==
  /\ Idle
  /\ \E shell \in Shells, args \in Arguments :
       /\ given' = [shell |-> shell, args |-> args]
       /\ environ' = Overridden(shell, args)
  /\ proxy' = "loading"
  /\ UNCHANGED <<initVars, cfg, serveVars>>

Exits == proxy' = "down" /\ given' = NotGiven /\ environ' = NotGiven.shell /\ cfg' = NoCfg

\* .lower() == "true"; the arguments say "false".
Protected == environ["switch"] \in {"unset", "shell"}
Number == IF environ["number"] = "unset" THEN "default" ELSE environ["number"]

\* find_servers_config(): a path that is given wins, missing or not.
Found == IF disk[1] # "absent" THEN "config"
         ELSE IF disk[Plain] # "absent" THEN "plain" ELSE "none"

ServersPath == IF environ["path"] \in {"shell", "arg"} THEN environ["path"] ELSE Found

Load ==
  /\ proxy = "loading" /\ Number # "odd"
  /\ cfg' = [protected |-> Protected, number |-> Number, path |-> ServersPath,
             servers |-> << >>]
  /\ proxy' = "reading"
  /\ given' = NotGiven /\ environ' = NotGiven.shell
  /\ UNCHANGED <<initVars, serveVars>>

\* The template lists no servers; any part of it is a comment, no servers, or no
\* mapping.
ListsServers == cfg.path = "config" => disk[1] = "own"

\* Slip: entries are passed on unread.
TakenUnread(e) == TRUE
Taken(e) == e.form # "invalid"

\* load_servers_yaml() comes to an entry that it can take; the others change nothing.
TakeEntry ==
  /\ proxy = "reading" /\ cfg.path # "none" /\ ListsServers
  /\ Len(cfg.servers) < MaxEntries
  /\ \E e \in Entries :
       Taken(e) /\ cfg' = [cfg EXCEPT !.servers = Append(@, e)]
  /\ UNCHANGED <<initVars, proxy, given, environ, serveVars>>

LoadEnds ==
  /\ proxy = "reading"
  /\ proxy' = "starting"
  /\ UNCHANGED <<initVars, startVars, serveVars>>

\* int() raises, or the file that was found is no YAML.
LoadRaises ==
  /\ proxy = "loading"
  /\ \/ Number = "odd"
     \/ ServersPath \in {"shell", "arg"}
     \/ ServersPath = "config" /\ disk[1] \in {"own", "cut"}
     \/ ServersPath = "plain"
  /\ Exits
  /\ UNCHANGED <<initVars, serveVars>>

\* Slip: an entry that is refused takes its id off the registry all the same.
RegisterOrRemove(i) ==
  registry' = [registry EXCEPT ![cfg.servers[i].id] =
                 IF cfg.servers[i].form = "refused" THEN 0 ELSE i]

\* register_server(), in the try of startup().
Register(i) ==
  IF cfg.servers[i].form = "refused" THEN UNCHANGED registry
  ELSE registry' = [registry EXCEPT ![cfg.servers[i].id] = i]

\* Backends are made, none is opened.
RegisterNext ==
  /\ proxy = "starting" /\ entry < Len(cfg.servers)
  /\ entry' = entry + 1
  /\ Register(entry')
  /\ UNCHANGED <<initVars, proxy, startVars, open, toClose, errors>>

Startup ==
  /\ proxy = "starting" /\ entry = Len(cfg.servers)
  /\ proxy' = "serving"
  /\ UNCHANGED <<initVars, startVars, serveVars>>

-----------------------------------------------------------------------------
(* Serving and shutdown *)
IsServed(id) == registry[id] # 0 /\ cfg.servers[registry[id]].form = "good"

\* forward() of the backend opens what it needs, when it needs it.
Use(id) ==
  /\ proxy = "serving" /\ IsServed(id)
  /\ open' = open \cup {id}
  /\ UNCHANGED <<initVars, proxy, startVars, entry, registry, toClose, errors>>

Shutdown ==
  /\ proxy = "serving"
  /\ proxy' = "closing"
  /\ toClose' = {id \in Ids : registry[id] # 0}
  /\ UNCHANGED <<initVars, startVars, entry, registry, open, errors>>

\* Slip: the first close() that raises ends the loop.
AfterErrorStop(id) == {}
AfterError(id) == toClose \ {id}

Close(id) ==
  /\ proxy = "closing" /\ id \in toClose
  /\ \/ toClose' = toClose \ {id} /\ open' = open \ {id} /\ UNCHANGED errors
     \/ id \in open /\ toClose' = AfterError(id) /\ errors' = errors \cup {id} /\ UNCHANGED open
  /\ UNCHANGED <<initVars, proxy, startVars, entry, registry>>

\* The registry is cleared and the process ends.
Stopped ==
  /\ proxy = "closing" /\ toClose = {}
  /\ Exits
  /\ entry' = 0 /\ registry' = [i \in Ids |-> 0] /\ open' = {} /\ errors' = {}
  /\ UNCHANGED <<initVars, toClose>>

-----------------------------------------------------------------------------
Commands == RunInit \/ RunProxy \/ \E f \in Files : Edit(f)

InitSteps == Skips \/ CopyBegins \/ CopyEnds \/ InitReports \/ InitDies
LoadSteps == Load \/ TakeEntry \/ LoadEnds \/ LoadRaises
ProxySteps == RegisterNext \/ Startup \/ Stopped \/ \E id \in Ids : Close(id)

Next == Commands \/ InitSteps \/ LoadSteps \/ ProxySteps \/ Shutdown \/ \E id \in Ids : Use(id)

Spec == Init /\ [][Next]_vars

-----------------------------------------------------------------------------
(* Properties *)
TypeOK ==
  /\ disk \in [Files -> {"absent", "cut", "template", "own"}]
  /\ init \in [at : 0..(NFiles + 1), force : BOOLEAN, copying : BOOLEAN,
               written : SUBSET Templates, skipped : SUBSET Templates]
  /\ crashed \in BOOLEAN
  /\ proxy \in {"down", "loading", "reading", "starting", "serving", "closing"}
  /\ given \in [shell : Shells, args : Arguments]
  /\ environ \in [Settings -> {"unset", "shell", "odd", "arg"}]
  /\ cfg.servers \in Seq({e \in Entries : e.form # "invalid"})
  /\ entry \in 0..Len(cfg.servers) /\ Len(cfg.servers) <= MaxEntries
  /\ registry \in [Ids -> 0..MaxEntries]
  /\ open \subseteq Ids /\ toClose \subseteq Ids /\ errors \subseteq open

\* scaffold(): "re-running init never silently discards edited policies", however
\* often it runs, is interrupted and runs again.
EditsSurvive ==
  [][init.at > 0 /\ ~init.force =>
       \A f \in Files : disk[f] = "own" => disk'[f] = "own"]_vars

\* A file that holds a part of a template is what an interrupted init left, and
\* --force repairs it: after a forced run that came to its end there is none.  What
\* a run calls created is the whole template; only what it calls existing may be cut.
ForceRepairs ==
  /\ \A f \in Files : disk[f] = "cut" => crashed \/ (Copying(f) /\ init.copying)
  /\ init.at > NFiles =>
       /\ init.written \cup init.skipped = Templates
       /\ \A f \in init.written : disk[f] = "template"
       /\ \A f \in init.skipped : disk[f] # "absent" /\ ~init.force

\* Where a setting is to come from: its argument, else the environment, else the
\* default.  A blank argument is none, which an operator who types --port 0 or an
\* empty path does not learn.
Source(s) ==
  CASE given.args[s] = "given"   -> "argument"
    [] given.args[s] # "given" /\ given.shell[s] # "unset" -> "environment"
    [] OTHER -> "default"

\* A start does what it was told, over the detour of the arguments through the
\* environment: each setting comes from its source.  What the environment says of a
\* protection counts only if it is "true"; an empty path there counts as none; a
\* servers file that was asked for is never exchanged for another, and among those
\* that are found the one init writes comes first.
StartsAsTold ==
  [][proxy = "loading" /\ proxy' = "reading" =>
       /\ cfg'.number = CASE Source("number") = "argument"    -> "arg"
                          [] Source("number") = "environment" -> "shell"
                          [] Source("number") = "default"     -> "default"
       /\ cfg'.protected <=> \/ Source("switch") = "default"
                            \/ /\ Source("switch") = "environment"
                               /\ given.shell["switch"] = "shell"
       /\ Source("path") = "argument" => cfg'.path = "arg"
       /\ Source("path") = "environment" /\ given.shell["path"] = "shell"
            => cfg'.path = "shell"
       /\ cfg'.path = "plain" => disk[1] = "absent"]_vars

\* Duplicate ids and bad entries do not take a server away: an id is registered with
\* the last entry for it that can be, whatever comes in between and after.  (An entry
\* that is switched off can be: after a good one it does take the server away.)
LastUsableServes ==
  proxy \in {"serving", "closing"} =>
    \A id \in Ids :
      LET usable == {i \in 1..Len(cfg.servers) :
                       cfg.servers[i].id = id /\ cfg.servers[i].form # "refused"}
      IN /\ registry[id] \in usable \cup {0}
         /\ \A i \in usable : i <= registry[id]

\* What is open can be closed: it is in the registry, and at the end of a shutdown
\* only what raised in close() is left, also when another one raised before it.
ShutdownClosesAll ==
  /\ \A id \in open : registry[id] # 0
  /\ proxy = "closing" /\ toClose = {} => open = errors
=============================================================================
