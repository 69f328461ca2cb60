------------------------------ MODULE Startup ------------------------------
(***************************************************************************)
(* What main() of src/src/clev2er/tools/run_chain.py does before it calls  *)
(* run_chain(): the command line, the two configuration files and their    *)
(* merge (src/src/clev2er/utils/config/load_config_settings.py), the       *)
(* algorithm list, and the selection of the L1b files (the finders         *)
(* find_lrm.py and find_sin.py).  The program is sequential; what makes it *)
(* hard is the number of sources a setting can come from, loops that edit  *)
(* the list they walk through, and directories listed in no order.         *)
(*                                                                         *)
(* A configuration is a function from paths, <<key>> or <<section, key>>,  *)
(* to values.  Baselines are numbered, 1 for A, in file names and in the   *)
(* key "baseline".  Files are well formed XML or YML; floats are not told  *)
(* apart from strings.                                                     *)
(***************************************************************************)
EXTENDS Integers, Sequences, FiniteSets, SequencesExt

CONSTANTS
    CommandLines,  \* the values of args
    Installations, \* what the directories and the files in them hold
    Empty          \* the string of no characters

(* Values in a configuration, and their truth in a condition.              *)
Bool(b) == [type |-> "bool", n |-> IF b THEN 1 ELSE 0, s |-> Empty]
Num(n) == [type |-> "int", n |-> n, s |-> Empty]
Str(s) == [type |-> "str", n |-> 0, s |-> s]
Truthy(v) == IF v.type = "str" THEN v.s # Empty ELSE v.n # 0

(* The name <chain>_<B><VVV>.<ext> of a chain configuration file or an     *)
(* algorithm list; NoName when the command line names none.                *)
NoName == [baseline |-> 0, version |-> 0, ext |-> Empty]
NoL1b == [id |-> 0]
NoMonth == -1

MultiProcessing == <<"chain", "use_multi_processing">>
SharedMemory == <<"chain", "use_shared_memory">>
StopOnError == <<"chain", "stop_on_error">>
MaxProcesses == <<"chain", "max_processes_for_multiprocessing">>
LogKeys == {"errors", "info", "debug", "append_year_month_to_logname"}

(* What argparse and the file formats guarantee.  The files of the two     *)
(* directories have names that the searches look at; modules are the keys  *)
(* of a dictionary, so no name occurs twice in a list; the main            *)
(* configuration has the settings that every chain reads.                  *)
Text == STRING

FileNames == [baseline : 1..26, version : 0..100, ext : {"xml", "yml"}]

Settings(c) ==
    \A p \in DOMAIN c : Len(p) \in 1..2 /\ c[p].type \in {"bool", "int", "str"}

ModuleList(entries) ==
    /\ entries \in Seq([name : Text, value : Text])
    /\ \A j, k \in DOMAIN entries : entries[j].name = entries[k].name => j = k

ASSUME StartupAssumption ==
    /\ \A a \in CommandLines :
         /\ a.baseline \in Int /\ a.version \in Int /\ a.max_files \in Int
         /\ a.conf_opts \in Seq(Seq(Text))
         /\ \A k \in DOMAIN a.conf_opts : a.conf_opts[k] # <<>>
    /\ \A d \in Installations :
         /\ d.configs \subseteq FileNames /\ d.lists \subseteq FileNames
         /\ Settings(d.main) /\ \A f \in d.configs : Settings(d.content[f])
         /\ {SharedMemory, MaxProcesses} \subseteq DOMAIN d.main
         /\ ModuleList(d.entries) /\ ModuleList(d.finders)
         /\ IsFiniteSet(d.archive)
         /\ \A f \in d.archive : f.month \in 1..12

VARIABLES
    args,                \* the parsed command line
    install,             \* files on disk: configs, lists, main, content,
                         \* entries, finders, archive, base_dir
    step,                \* the part of main() that comes next
    outcome,             \* "none", "exit" (sys.exit), "crash" (uncaught) or "run"
    chainFile,           \* name of the chain configuration file
    config,
    opt,                 \* index of the next option in args.conf_opts
    listFile,            \* name of the algorithm list file
    algorithm_list, finder_list, breakpoint_alg_name,
    index,               \* index of the loop that is running
    l1b_file_list,
    runBreakpoint        \* breakpoint_alg_name as passed to run_chain()

listVars == <<listFile, algorithm_list, finder_list, breakpoint_alg_name>>
mainVars == <<args, install, step, outcome, chainFile, config, opt, listVars, index,
          l1b_file_list, runBreakpoint>>

MainInit ==
    /\ args \in CommandLines /\ install \in Installations
    /\ step = "parse" /\ outcome = "none"
    /\ chainFile = NoName /\ config = <<>> /\ opt = 1
    /\ listFile = NoName /\ algorithm_list = <<>> /\ finder_list = <<>>
    /\ breakpoint_alg_name = Empty /\ index = 1
    /\ l1b_file_list = <<>> /\ runBreakpoint = Empty

Stop(o) ==
    /\ outcome' = o /\ step' = "end"
    /\ UNCHANGED <<args, install, chainFile, config, opt, listVars, index,
                   l1b_file_list, runBreakpoint>>

Goto(label) == step' = label /\ UNCHANGED <<args, install, outcome>>
-----------------------------------------------------------------------------
(* Configuration.                                                          *)

BadArguments ==
    \/ args.baseline \notin 0..26
    \/ args.version > 100

ParseArgs ==
    /\ step = "parse"
    /\ IF BadArguments THEN Stop("exit")
       ELSE /\ Goto("find_config")
            /\ UNCHANGED <<chainFile, config, opt, listVars, index, l1b_file_list, runBreakpoint>>

Matching(dir, b, v, ext) ==
    {f \in dir : f.baseline = b /\ f.ext = ext /\ v \in {0, f.version}}

(* The search from Z down to A, XML before YML.  The last element of what  *)
(* glob.glob() returns is taken, which is in no particular order: any      *)
(* member of this set.                                                     *)
Search(dir, baselines, v) ==
    LET present == {b \in baselines : \E f \in dir : f.baseline = b /\ v \in {0, f.version}}
        b == Max(present)
    IN  IF present = {} THEN {}
        ELSE IF Matching(dir, b, v, "xml") # {} THEN Matching(dir, b, v, "xml")
        ELSE Matching(dir, b, v, "yml")

(* With baseline and version given there is nothing to search: the XML     *)
(* file if there is one, else the name of the YML file, there or not.      *)
Exact(dir, b, v) ==
    LET xml == [baseline |-> b, version |-> v, ext |-> "xml"]
    IN  IF xml \in dir THEN xml ELSE [xml EXCEPT !.ext = "yml"]

Candidates(dir, b, v) ==
    IF b # 0 /\ v # 0 THEN {Exact(dir, b, v)}
    ELSE Search(dir, IF b # 0 THEN {b} ELSE 1..26, v)

(* load_config_files(), the file to use.  A name without a baseline letter *)
(* raises NameError, which main() does not catch.                          *)
FindChainConfig ==
    /\ step = "find_config"
    /\ \/ /\ args.conf # NoName /\ args.conf.baseline = 0
          /\ Stop("crash")
       \/ /\ args.conf # NoName /\ args.conf.baseline # 0
          /\ args.conf.version \notin 0..100
          /\ Stop("exit")
       \/ /\ args.conf = NoName
          /\ Candidates(install.configs, args.baseline, args.version) = {}
          /\ Stop("exit")
       \/ /\ chainFile' \in IF args.conf = NoName
                            THEN Candidates(install.configs, args.baseline, args.version)
                            ELSE {f \in {args.conf} : f.baseline # 0 /\ f.version \in 0..100}
          /\ Goto("read_config")
          /\ UNCHANGED <<config, opt, listVars, index, l1b_file_list, runBreakpoint>>

(* Mutant for RequestSound: the main configuration is merged last.         *)
MergedMainLast(main, content) ==
    [p \in DOMAIN main \cup {q \in DOMAIN content : q[1] # "chain"} |->
        IF p \in DOMAIN main THEN main[p] ELSE content[p]]

(* Settings of the chain's own section "chain" replace those of the main   *)
(* configuration, as far as that has them; all its other sections are      *)
(* added.                                                                  *)
Merged(main, content) ==
    [p \in DOMAIN main \cup {q \in DOMAIN content : q[1] # "chain"} |->
        IF p \in DOMAIN content THEN content[p] ELSE main[p]]

(* The configuration of the two files, before the command line changes it. *)
FileConfig == Merged(install.main, install.content[chainFile])

(* load_config_files(), the contents.  A file that is not there is an      *)
(* OSError; an extension that is neither leaves chain_config unassigned.   *)
ReadChainConfig ==
    /\ step = "read_config"
    /\ \/ chainFile.ext \notin {"xml", "yml"} /\ Stop("crash")
       \/ chainFile.ext \in {"xml", "yml"} /\ chainFile \notin install.configs /\ Stop("exit")
       \/ /\ chainFile \in install.configs
          /\ config' = FileConfig
          /\ Goto("check")
          /\ UNCHANGED <<chainFile, opt, listVars, index, l1b_file_list, runBreakpoint>>

(* --baseline and --version against the keys of these names in the file,   *)
(* which need not agree with the name of the file; without the key a       *)
(* KeyError is not caught.                                                 *)
Keyless(key, given) == given # 0 /\ <<key>> \notin DOMAIN config
Differs(key, given) == given # 0 /\ <<key>> \in DOMAIN config /\ config[<<key>>] # Num(given)

CheckBaselineVersion ==
    /\ step = "check"
    /\ LET same == ~Keyless("baseline", args.baseline) /\ ~Differs("baseline", args.baseline)
       IN  \/ Keyless("baseline", args.baseline) /\ Stop("crash")
           \/ Differs("baseline", args.baseline) /\ Stop("exit")
           \/ same /\ Keyless("version", args.version) /\ Stop("crash")
           \/ same /\ Differs("version", args.version) /\ Stop("exit")
           \/ /\ same /\ ~Keyless("version", args.version) /\ ~Differs("version", args.version)
              /\ Goto("apply")
              /\ UNCHANGED <<chainFile, config, opt, listVars, index, l1b_file_list, runBreakpoint>>

HasSection(c, section) == \E p \in DOMAIN c : p[1] = section /\ Len(p) = 2

With(c, path, value) ==
    [p \in DOMAIN c \cup {path} |-> IF p = path THEN value ELSE c[p]]

(* The switches, in the order in which main() looks at them.               *)
Switched ==
    LET mp == IF args.multiprocessing THEN With(config, MultiProcessing, Bool(TRUE)) ELSE config
        sp == IF args.sequentialprocessing THEN With(mp, MultiProcessing, Bool(FALSE)) ELSE mp
        sm == IF args.sharedmem THEN With(sp, SharedMemory, Bool(TRUE)) ELSE sp
        np == IF args.nprocs # 0 THEN With(sm, MaxProcesses, Num(args.nprocs)) ELSE sm
    IN  IF args.stop_on_error THEN With(np, StopOnError, Bool(TRUE)) ELSE np

SharedMemRefused ==
    /\ args.sharedmem
    /\ MultiProcessing \in DOMAIN Switched
    /\ ~Truthy(Switched[MultiProcessing])

(* debug_mode is set in config["log_files"], before its presence is        *)
(* checked.                                                                *)
ApplyArguments ==
    /\ step = "apply"
    /\ \/ /\ \/ ~HasSection(config, "log_files")
             \/ args.sharedmem /\ MultiProcessing \notin DOMAIN Switched
          /\ Stop("crash")
       \/ HasSection(config, "log_files") /\ SharedMemRefused /\ Stop("exit")
       \/ /\ HasSection(config, "log_files") /\ ~SharedMemRefused
          /\ args.sharedmem => MultiProcessing \in DOMAIN Switched
          /\ config' = Switched
          /\ Goto("options")
          /\ UNCHANGED <<chainFile, opt, listVars, index, l1b_file_list, runBreakpoint>>

(* The value of an option: exactly "true" and "false" are truth values and *)
(* digits a number; everything else stays a string.                        *)
Digits == [t \in {"0", "1", "2"} |-> IF t = "0" THEN 0 ELSE IF t = "1" THEN 1 ELSE 2]
Convert(text) ==
    IF text \in {"true", "false"} THEN Bool(text = "true")
    ELSE IF text \in DOMAIN Digits THEN Num(Digits[text])
    ELSE Str(text)

(* One element of --conf_opts, split at its colons: key, key:value,        *)
(* section:key:value; a deeper one is ignored.  A key replaces a section   *)
(* of that name; a key cannot be set inside something that is no section.  *)
ApplyOption ==
    /\ step = "options" /\ opt <= Len(args.conf_opts)
    /\ LET o == args.conf_opts[opt]
           path == IF Len(o) = 1 THEN o ELSE Front(o)
           value == IF Len(o) = 1 THEN Bool(TRUE) ELSE Convert(Last(o))
           rest == [p \in {q \in DOMAIN config : q[1] # path[1]} |-> config[p]]
       IN  \/ /\ Len(path) = 2 /\ <<path[1]>> \in DOMAIN config
              /\ Stop("crash")
           \/ /\ ~(Len(path) = 2 /\ <<path[1]>> \in DOMAIN config)
              /\ config' = CASE Len(path) = 1 -> With(rest, path, value)
                             [] Len(path) = 2 -> With(config, path, value)
                             [] OTHER -> config
              /\ opt' = opt + 1
              /\ Goto("options")
              /\ UNCHANGED <<chainFile, listVars, index, l1b_file_list, runBreakpoint>>

Given(m) == m \notin {NoMonth, 0}

NoInputs ==
    /\ ~args.cs2testdir /\ args.file = NoL1b /\ ~args.dir
    /\ args.year = 0 /\ ~Given(args.month)

(* After the options: at least one source of inputs, and the four settings *)
(* of log_files; a key "log_files" that is no section raises TypeError.    *)
CheckInputsAndLogs ==
    /\ step = "options" /\ opt > Len(args.conf_opts)
    /\ LET complete == \A k \in LogKeys : <<"log_files", k>> \in DOMAIN config
           scalar == <<"log_files">> \in DOMAIN config
       IN  \/ (NoInputs \/ ~(complete \/ scalar)) /\ Stop("exit")
           \/ ~NoInputs /\ scalar /\ Stop("crash")
           \/ /\ ~NoInputs /\ complete /\ ~scalar
              /\ Goto("find_list")
              /\ UNCHANGED <<chainFile, config, opt, listVars, index, l1b_file_list, runBreakpoint>>
-----------------------------------------------------------------------------
(* The algorithm list.                                                     *)

(* Mutant for FilesFit: the list is searched with what the                 *)
(* command line gives, not with what the configuration file settled.       *)
ListCandidatesFromArgs ==
    IF args.alglist # NoName THEN {args.alglist}
    ELSE Candidates(install.lists, args.baseline, args.version)

(* load_algorithm_list(): the search is called with the baseline of the    *)
(* chain configuration file, and its version or that of --version.         *)
ListCandidates ==
    IF args.alglist # NoName THEN {args.alglist}
    ELSE Candidates(install.lists, chainFile.baseline,
                    IF args.version > 0 THEN args.version ELSE chainFile.version)

(* A missing file is an error; so is a YML list without finders, and a     *)
(* name with another extension raises NameError, which is not caught.      *)
LoadAlgorithmList ==
    /\ step = "find_list"
    /\ \/ ListCandidates = {} /\ Stop("exit")
       \/ \E f \in ListCandidates :
            \/ f.ext \notin {"xml", "yml"} /\ Stop("crash")
            \/ /\ f.ext \in {"xml", "yml"}
               /\ f \notin install.lists \/ (f.ext = "yml" /\ install.finders = <<>>)
               /\ Stop("exit")
            \/ /\ f.ext \in {"xml", "yml"} /\ f \in install.lists
               /\ f.ext = "yml" => install.finders # <<>>
               /\ listFile' = f
               /\ algorithm_list' = [k \in DOMAIN install.entries |-> install.entries[k].name]
               /\ finder_list' = [k \in DOMAIN install.finders |-> install.finders[k].name]
               /\ index' = 1
               /\ Goto(IF f.ext = "xml" THEN "scan_finders" ELSE "select")
               /\ UNCHANGED <<chainFile, config, opt, breakpoint_alg_name, l1b_file_list,
                              runBreakpoint>>

ValueOf(entries, name) ==
    (CHOOSE e \in ToSet(entries) : e.name = name).value

(* for finder_module in finder_module_list: ... remove(finder_module).     *)
(* The loop index goes on while the list closes up behind it.              *)
ScanFinder ==
    /\ step = "scan_finders"
    /\ \/ /\ index <= Len(finder_list)
          /\ finder_list' = IF ValueOf(install.finders, finder_list[index]) = "Disable"
                            THEN RemoveAt(finder_list, index) ELSE finder_list
          /\ index' = index + 1
          /\ Goto("scan_finders")
       \/ /\ index > Len(finder_list)
          /\ index' = 1
          /\ Goto("scan_algorithms")
          /\ UNCHANGED finder_list
    /\ UNCHANGED <<chainFile, config, opt, listFile, algorithm_list, breakpoint_alg_name,
                   l1b_file_list, runBreakpoint>>

(* Mutant for ListExact: the element after the disabled one is removed.    *)
ScanAlgorithmRemovesNext ==
    /\ step = "scan_algorithms"
    /\ \/ /\ index <= Len(algorithm_list)
          /\ algorithm_list' = IF ValueOf(install.entries, algorithm_list[index]) = "Disable"
                                  /\ index < Len(algorithm_list)
                               THEN RemoveAt(algorithm_list, index + 1) ELSE algorithm_list
          /\ index' = index + 1
          /\ Goto("scan_algorithms")
       \/ /\ index > Len(algorithm_list)
          /\ index' = 1
          /\ Goto("select")
          /\ UNCHANGED algorithm_list
    /\ UNCHANGED <<chainFile, config, opt, listFile, finder_list, breakpoint_alg_name,
                   l1b_file_list, runBreakpoint>>

ScanAlgorithm ==
    /\ step = "scan_algorithms"
    /\ \/ /\ index <= Len(algorithm_list)
          /\ LET alg == algorithm_list[index]
                 value == ValueOf(install.entries, alg)
             IN  /\ algorithm_list' = IF value = "Disable" THEN RemoveAt(algorithm_list, index)
                                      ELSE algorithm_list
                 /\ breakpoint_alg_name' = IF value = "BreakpointAfter" THEN alg
                                           ELSE breakpoint_alg_name
          /\ index' = index + 1
          /\ Goto("scan_algorithms")
       \/ /\ index > Len(algorithm_list)
          /\ index' = 1
          /\ Goto("select")
          /\ UNCHANGED <<algorithm_list, breakpoint_alg_name>>
    /\ UNCHANGED <<chainFile, config, opt, listFile, finder_list, l1b_file_list, runBreakpoint>>
-----------------------------------------------------------------------------
(* The L1b files.                                                          *)

(* --cs2testdir, --file and --dir, in this order, and the finders only if  *)
(* none is given.  use_multi_processing is read first.                     *)
SelectInputs ==
    /\ step = "select"
    /\ \/ MultiProcessing \notin DOMAIN config /\ Stop("crash")
       \/ /\ MultiProcessing \in DOMAIN config
          /\ \/ /\ args.cs2testdir \/ (args.file = NoL1b /\ args.dir)
                /\ l1b_file_list' \in SetToSeqs(install.archive)
                /\ Goto("limit")
             \/ /\ ~args.cs2testdir /\ args.file # NoL1b
                /\ l1b_file_list' = <<args.file>>
                /\ Goto("limit")
             \/ /\ ~args.cs2testdir /\ args.file = NoL1b /\ ~args.dir
                /\ Goto("find")
                /\ UNCHANGED l1b_file_list
          /\ breakpoint_alg_name' = IF args.breakpoint_after # Empty THEN args.breakpoint_after
                                    ELSE breakpoint_alg_name
          /\ UNCHANGED <<chainFile, config, opt, listFile, algorithm_list, finder_list, index,
                         runBreakpoint>>

(* test_nc_file_in_greenland(); a file that cannot be read is left out.    *)
InGreenland(f) == f.readable /\ f.lat >= 0 /\ f.lon <= 10 /\ f.lon >= -90

(* add_month(), add_year(): a month without a year adds neither.           *)
Years == IF args.year # 0 /\ (Given(args.month) \/ args.month = NoMonth)
         THEN {args.year} ELSE {}
Months == IF Given(args.month) THEN {args.month} ELSE 1..12

Mode == [find_lrm |-> "LRM", find_sin |-> "SIN"]
OnlyOther == [find_lrm |-> <<"sin_only">>, find_sin |-> <<"lrm_only">>]

GreenlandOnly == <<"grn_only">> \in DOMAIN config /\ Truthy(config[<<"grn_only">>])

(* The errors of a finder that main() reports: a year before 1960, a       *)
(* missing setting or directory, no year, a pool of no processes.          *)
FinderFails(finder) ==
    \/ \E y \in Years : y < 1960
    \/ /\ OnlyOther[finder] \notin DOMAIN config
       /\ \/ <<"l1b_baselines">> \notin DOMAIN config
          \/ <<"l1b_base_dir">> \notin DOMAIN config
          \/ ~install.base_dir
          \/ Years = {}
          \/ GreenlandOnly /\ MaxProcesses \in DOMAIN config /\ config[MaxProcesses].n <= 0

(* The sequences of the elements of a set in the order of their months;    *)
(* the order within a month is that of glob.glob(), which is any.          *)
ByMonth(files) ==
    {s \in SetToSeqs(files) : \A j, k \in DOMAIN s : j < k => s[j].month <= s[k].month}

(* The files of the archive that a finder is asked for; "grn_only" leaves  *)
(* files out of the list that was found and keeps the order of the rest.   *)
Hits(finder) ==
    {f \in install.archive : /\ f.mode = Mode[finder] /\ f.wanted
                             /\ f.year \in Years /\ f.month \in Months
                             /\ GreenlandOnly => InGreenland(f)}

(* Mutant for SelectedExactly: a single-mode option is obeyed by the       *)
(* finder of its own mode.                                                 *)
FoundSwapped(finder) ==
    LET excluded == \E g \in DOMAIN Mode : g # finder /\ OnlyOther[g] \in DOMAIN config
    IN  IF excluded THEN {<<>>} ELSE ByMonth(Hits(finder))

(* The lists find_files() may return; "sin_only" and "lrm_only" count as   *)
(* soon as they are in the configuration, whatever their value.            *)
Found(finder) ==
    IF OnlyOther[finder] \in DOMAIN config THEN {<<>>} ELSE ByMonth(Hits(finder))

RunFinder ==
    /\ step = "find"
    /\ \/ /\ index <= Len(finder_list)
          /\ finder_list[index] \in DOMAIN Mode => FinderFails(finder_list[index])
          /\ Stop("exit")
       \/ /\ index <= Len(finder_list)
          /\ finder_list[index] \in DOMAIN Mode /\ ~FinderFails(finder_list[index])
          /\ \E files \in Found(finder_list[index]) : l1b_file_list' = l1b_file_list \o files
          /\ index' = index + 1
          /\ Goto("find")
          /\ UNCHANGED <<chainFile, config, opt, listVars, runBreakpoint>>
       \/ /\ index > Len(finder_list)
          /\ Goto("limit")
          /\ UNCHANGED <<chainFile, config, opt, listVars, index, l1b_file_list, runBreakpoint>>

(* --max_files as a Python slice, then at least one file has to exist.     *)
LimitAndCheckFiles ==
    /\ step = "limit"
    /\ LET n == Len(l1b_file_list)
           limited == IF args.max_files # 0 /\ n > args.max_files
                      THEN SubSeq(l1b_file_list, 1, IF args.max_files > 0 THEN args.max_files
                                                    ELSE n + args.max_files)
                      ELSE l1b_file_list
       IN  IF ToSet(limited) \cap install.archive = {} THEN Stop("exit")
           ELSE /\ l1b_file_list' = limited
                /\ Goto("call")
                /\ UNCHANGED <<chainFile, config, opt, listVars, index, runBreakpoint>>

(* stop_on_error is read, the breakpoint of the command line checked and   *)
(* passed on; the one of the list stays in breakpoint_alg_name.            *)
CallRunChain ==
    /\ step = "call"
    /\ LET known == args.breakpoint_after = Empty \/ Contains(algorithm_list, args.breakpoint_after)
       IN  \/ StopOnError \notin DOMAIN config /\ Stop("crash")
           \/ StopOnError \in DOMAIN config /\ ~known /\ Stop("exit")
           \/ /\ StopOnError \in DOMAIN config /\ known
              /\ outcome' = "run" /\ step' = "end"
              /\ runBreakpoint' = args.breakpoint_after
              /\ UNCHANGED <<args, install, chainFile, config, opt, listVars, index, l1b_file_list>>

Ended == step = "end" /\ UNCHANGED mainVars

MainNext ==
    \/ ParseArgs \/ FindChainConfig \/ ReadChainConfig \/ CheckBaselineVersion
    \/ ApplyArguments \/ ApplyOption \/ CheckInputsAndLogs
    \/ LoadAlgorithmList \/ ScanFinder \/ ScanAlgorithm
    \/ SelectInputs \/ RunFinder \/ LimitAndCheckFiles \/ CallRunChain
    \/ Ended

MainSpec == MainInit /\ [][MainNext]_mainVars
-----------------------------------------------------------------------------
(* Properties.                                                             *)

Runs == outcome = "run"

(* Types: lists hold names from the files, indices stay within their       *)
(* loops, although a loop shortens the list it walks through.              *)
MainTypeOK ==
    /\ step \in {"parse", "find_config", "read_config", "check", "apply", "options", "find_list",
                 "scan_finders", "scan_algorithms", "select", "find", "limit", "call", "end"}
    /\ outcome \in {"none", "exit", "crash", "run"} /\ (outcome = "none" <=> step # "end")
    /\ chainFile \in install.configs \cup {args.conf, NoName} \/ step \in {"read_config", "end"}
    /\ Settings(config)
    /\ opt \in 1..Len(args.conf_opts) + 1
    /\ ToSet(algorithm_list) \subseteq {e.name : e \in ToSet(install.entries)}
    /\ ToSet(finder_list) \subseteq {e.name : e \in ToSet(install.finders)}
    /\ index \in 1..Len(install.entries) + Len(install.finders) + 1
    /\ runBreakpoint \in {Empty, args.breakpoint_after}

(* load_config_files(): of the files in the directory that agree with      *)
(* --baseline and --version none has a later baseline than the one used,   *)
(* and a YML file is used only if its baseline has no XML file.            *)
HighestBaseline ==
    Runs /\ args.conf = NoName =>
        \A f \in install.configs :
            /\ args.baseline \in {0, f.baseline} /\ args.version \in {0, f.version}
            => /\ f.baseline <= chainFile.baseline
               /\ f.baseline = chainFile.baseline /\ f.ext = "xml" => chainFile.ext = "xml"

(* main(): unless the command line names a list, the algorithm list that   *)
(* is run has the baseline and the version of the chain configuration,     *)
(* although the two files are searched for by different functions: the     *)
(* version in the name of the file, or the one that the file itself gives  *)
(* when --conf and --version come together.  A configuration file numbered *)
(* 000 takes any list.                                                     *)
ListFollowsConfig ==
    Runs /\ args.alglist = NoName =>
        /\ listFile.baseline = chainFile.baseline
        /\ IF args.conf # NoName /\ args.version > 0
           THEN FileConfig[<<"version">>] = Num(listFile.version)
           ELSE chainFile.version \in {0, listFile.version}

(* The number of consecutive elements with value "Disable" that end at k.  *)
DisabledUpTo(entries, k) ==
    Max({n \in 0..k : \A j \in k - n + 1..k : entries[j].value = "Disable"})

(* load_algorithm_list(), the loop that removes from the list it walks     *)
(* through: in an XML list exactly the first, third, ... of consecutive    *)
(* disabled algorithms are left out.  So no algorithm that is enabled is   *)
(* ever lost and none changes its place.                                   *)
ListExact ==
    Runs /\ listFile.ext = "xml" =>
        LET kept == {k \in DOMAIN install.entries : DisabledUpTo(install.entries, k) % 2 = 0}
        IN  algorithm_list =
              [k \in 1..Cardinality(kept) |->
                  install.entries[CHOOSE m \in kept :
                                    Cardinality({j \in kept : j <= m}) = k].name]

(* main(): run_chain() is only asked to stop after an algorithm that it is *)
(* going to run: without it every file would go through the whole chain.   *)
BreakpointKnown ==
    Runs => runBreakpoint = Empty \/ Contains(algorithm_list, runBreakpoint)

(* What the request of the command line means for a file.                  *)
Requested(f) ==
    /\ f.wanted /\ f.year = args.year
    /\ args.month \in {NoMonth, f.month}
    /\ f.mode = "LRM" => <<"sin_only">> \notin DOMAIN config
    /\ f.mode = "SIN" => <<"lrm_only">> \notin DOMAIN config
    /\ \E finder \in ToSet(finder_list) : Mode[finder] = f.mode
    /\ GreenlandOnly => InGreenland(f)

(* The finders together: what the chain is run on are files that the       *)
(* command line asks for, none of them twice, and all of them unless       *)
(* --max_files cuts the list.                                              *)
SelectedExactly ==
    Runs /\ args.file = NoL1b /\ ~args.dir /\ ~args.cs2testdir =>
        /\ Cardinality(ToSet(l1b_file_list)) = Len(l1b_file_list)
        /\ \A f \in ToSet(l1b_file_list) : Requested(f)
        /\ args.max_files = 0 =>
             {f \in install.archive : Requested(f)} \subseteq ToSet(l1b_file_list)

(* The last of the options that sets a path; 0 if none does.               *)
LastOption(path) ==
    Max({0} \cup {k \in DOMAIN args.conf_opts :
                    Len(args.conf_opts[k]) > 1 /\ Front(args.conf_opts[k]) = path})

(* A setting of the chain section: the last option for it wins over the    *)
(* switches, these over the chain configuration, and that over the main    *)
(* configuration; --sequentialprocessing wins over --multiprocessing.      *)
Precedence ==
    Runs => \A path \in {MultiProcessing, StopOnError} :
        LET switch == IF path = StopOnError THEN args.stop_on_error
                      ELSE args.multiprocessing \/ args.sequentialprocessing
            switched == path = StopOnError \/ ~args.sequentialprocessing
        IN  config[path] =
              IF LastOption(path) # 0 THEN Convert(Last(args.conf_opts[LastOption(path)]))
              ELSE IF switch THEN Bool(switched)
              ELSE IF path \in DOMAIN install.content[chainFile] THEN install.content[chainFile][path]
              ELSE install.main[path]

(* main(): --sharedmem never reaches a chain that runs sequentially,       *)
(* wherever multi-processing was switched off, except by a later option.   *)
SharedMemNeedsMp ==
    Runs /\ args.sharedmem /\ LastOption(MultiProcessing) = 0
        => Truthy(config[MultiProcessing])

(* run_chain() gets at least one file that exists and the settings that it *)
(* reads: what RunChain assumes.                                           *)
RequestComplete ==
    Runs => /\ ToSet(l1b_file_list) \cap install.archive # {}
            /\ {MultiProcessing, SharedMemory, StopOnError, MaxProcesses} \subseteq DOMAIN config
            /\ args.max_files > 0 => Len(l1b_file_list) <= args.max_files

(* main(): the configuration and the algorithm list that are used are the  *)
(* right ones of their directories, and belong together.                   *)
FilesFit == HighestBaseline /\ ListFollowsConfig

(* What main() hands to run_chain() is complete, and every setting has the *)
(* value that the most specific of the four places that set it gives.      *)
RequestSound ==
    /\ MainTypeOK
    /\ Precedence
    /\ SharedMemNeedsMp
    /\ BreakpointKnown
    /\ RequestComplete
=============================================================================
