----------------------------- MODULE MCStartup -----------------------------
(* Instances of Startup: every command line with one way of naming the     *)
(* inputs and one further option, or two for a file and for a year, on     *)
(* installations that differ from a usual one in one respect.              *)
EXTENDS Startup, TLC

Name(b, v, e) == [baseline |-> b, version |-> v, ext |-> e]

Lrm1 == [id |-> 1, mode |-> "LRM", year |-> 2020, month |-> 1, wanted |-> TRUE,
         lat |-> 70, lon |-> -90, readable |-> TRUE]
Archive ==
    {Lrm1,
     [Lrm1 EXCEPT !.id = 2, !.month = 2, !.lon = 11],
     [Lrm1 EXCEPT !.id = 3, !.mode = "SIN", !.lat = -1],
     [Lrm1 EXCEPT !.id = 4, !.mode = "SIN", !.month = 12, !.lon = 10]}
Missing == [Lrm1 EXCEPT !.id = 9]

(* Ways to name the inputs.                                                *)
NoArgs ==
    [baseline |-> 0, version |-> 0, conf |-> NoName, alglist |-> NoName, conf_opts |-> <<>>,
     file |-> NoL1b, dir |-> FALSE, cs2testdir |-> FALSE, year |-> 0, month |-> NoMonth,
     max_files |-> 0, multiprocessing |-> FALSE, sequentialprocessing |-> FALSE,
     sharedmem |-> FALSE, nprocs |-> 0, stop_on_error |-> FALSE, breakpoint_after |-> Empty]

Inputs ==
    {NoArgs, [NoArgs EXCEPT !.file = Lrm1], [NoArgs EXCEPT !.file = Missing],
     [NoArgs EXCEPT !.dir = TRUE], [NoArgs EXCEPT !.cs2testdir = TRUE],
     [NoArgs EXCEPT !.year = 2020], [NoArgs EXCEPT !.month = 1],
     [NoArgs EXCEPT !.year = 2020, !.month = 1], [NoArgs EXCEPT !.year = 2020, !.month = 0],
     [NoArgs EXCEPT !.year = 1959]}

(* One further option.                                                     *)
Extended(a) ==
    {[a EXCEPT !.baseline = b] : b \in {1, 2, 27}}
    \cup {[a EXCEPT !.version = v] : v \in {1, 2, 101}}
    \cup {[a EXCEPT !.conf = f] : f \in {Name(1, 1, "xml"), Name(2, 1, "yml"), Name(0, 1, "yml"),
                                         Name(1, 2, "xml"), Name(1, -1, "xml"), Name(1, 0, "xml"),
                                         Name(1, 1, "txt")}}
    \cup {[a EXCEPT !.alglist = f] : f \in {Name(1, 2, "xml"), Name(2, 1, "yml"), Name(1, 1, "txt")}}
    \cup {[a EXCEPT !.conf_opts = Append(@, o)] :
            o \in {<<"sin_only">>, <<"lrm_only", "false">>, <<"grn_only", "true">>,
                   <<"grn_only", "0">>, <<"grn_only", "False">>, <<"chain", "stop_on_error", "false">>,
                   <<"chain", "use_multi_processing", "true">>, <<"log_files", "0">>,
                   <<"chain", "1">>, <<"grn_only", "x", "1">>, <<"a", "b", "c", "1">>}}
    \cup {[a EXCEPT !.max_files = m] : m \in {1, -1}}
    \cup {[a EXCEPT !.multiprocessing = TRUE], [a EXCEPT !.sequentialprocessing = TRUE],
          [a EXCEPT !.sharedmem = TRUE], [a EXCEPT !.nprocs = -1], [a EXCEPT !.stop_on_error = TRUE]}
    \cup {[a EXCEPT !.breakpoint_after = b] : b \in {"alg_a", "alg_x"}}

MCCommandLines ==
    LET usual == {[NoArgs EXCEPT !.file = Lrm1], [NoArgs EXCEPT !.year = 2020]}
    IN  Inputs \cup UNION {Extended(a) : a \in Inputs}
        \cup UNION {Extended(b) : b \in UNION {Extended(a) : a \in usual}}

(* Installations.                                                          *)
Entries(values) ==
    [k \in DOMAIN values |-> [name |-> <<"alg_a", "alg_b", "alg_c", "alg_d">>[k], value |-> values[k]]]
Finders(values) ==
    [k \in DOMAIN values |-> [name |-> <<"find_lrm", "find_sin", "find_sar">>[k], value |-> values[k]]]

Content ==
    [p \in {<<"log_files", k>> : k \in LogKeys} \cup {<<"l1b_base_dir">>, <<"l1b_baselines">>}
        |-> Str("x")] @@ (StopOnError :> Bool(TRUE)) @@ (<<"chain", "other">> :> Bool(TRUE))

Main ==
    (MultiProcessing :> Bool(FALSE)) @@ (SharedMemory :> Bool(FALSE))
    @@ (StopOnError :> Bool(FALSE)) @@ (MaxProcesses :> Num(2))

(* The configuration files of a directory: each has the contents c and     *)
(* says which baseline and version it is.                                  *)
Keys(b, v) == (<<"baseline">> :> Num(b)) @@ (<<"version">> :> Num(v))
Filled(dir, c) == [f \in dir |-> c @@ Keys(f.baseline, f.version)]

TwoBaselines == {Name(1, 1, "yml"), Name(2, 1, "yml")}
TwoVersions == {Name(1, 1, "xml"), Name(1, 2, "xml"), Name(1, 2, "yml")}

Usual ==
    [configs |-> TwoBaselines,
     lists |-> {Name(1, 1, "xml"), Name(1, 2, "xml"), Name(2, 1, "xml"), Name(2, 1, "yml")},
     main |-> Main, content |-> Filled(TwoBaselines, Content),
     entries |-> Entries(<<"Enable", "Enable">>), finders |-> Finders(<<"Enable", "Enable">>),
     archive |-> Archive, base_dir |-> TRUE]

Without(f, paths) == [p \in DOMAIN f \ paths |-> f[p]]

MCInstallations ==
    {Usual}
    \cup {[Usual EXCEPT !.configs = dir, !.content = Filled(dir, Content)] :
            dir \in {{}, TwoVersions, {Name(1, 0, "xml")},
                     {Name(1, 2, "xml"), Name(2, 1, "yml")}}}
    \cup {[Usual EXCEPT !.lists = {Name(1, 1, "xml"), Name(2, 1, "yml")}]}
    \cup {[Usual EXCEPT !.entries = Entries(v)] :
            v \in {<<"Disable", "Disable">>} \cup [1..4 -> {"Enable", "Disable"}]
                  \cup [1..3 -> {"Enable", "BreakpointAfter"}]}
    \cup {[Usual EXCEPT !.finders = Finders(v)] :
            v \in {<<>>, <<"Enable">>, <<"Disable", "Disable">>, <<"Enable", "Enable", "Enable">>}}
    \cup {[Usual EXCEPT !.configs = TwoVersions, !.content = [f \in TwoVersions |-> Content @@ keys]] :
            keys \in {<<>>, Keys(1, 1), Without(Keys(1, 1), {<<"version">>})}}
    \cup {[Usual EXCEPT !.content = Filled(TwoBaselines, c)] :
            c \in {Without(Content, {<<"log_files", k>> : k \in LogKeys}),
                   Without(Content, {<<"log_files", "debug">>}),
                   Without(Content, {<<"l1b_base_dir">>}),
                   (MultiProcessing :> Bool(TRUE)) @@ Content}}
    \cup {[Usual EXCEPT !.main = m] :
            m \in {Without(Main, {MultiProcessing}), Without(Main, {StopOnError})}}
    \cup {[Usual EXCEPT !.base_dir = FALSE],
          [Usual EXCEPT !.archive = {[f EXCEPT !.readable = f.id # 4, !.wanted = f.id # 1] : f \in Archive}]}
-----------------------------------------------------------------------------
(* What the documentation says and the code does not do.                   *)

(* src/src/clev2er/tools/run_chain.py: "when 0 is used, the highest version *)
(* number found for the baseline is used".                                 *)
HighestVersion ==
    Runs /\ args.conf = NoName /\ args.version = 0 =>
        \A f \in install.configs :
            f.baseline = chainFile.baseline /\ f.ext = chainFile.ext => f.version <= chainFile.version

(* src/config/algorithm_lists/cryotempo/cryotempo_D001.xml: "value:        *)
(* Disable : algorithm will be skipped".                                   *)
DisabledSkipped ==
    Runs /\ listFile.ext = "xml" =>
        \A e \in ToSet(install.entries) :
            e.value = "Disable" => ~Contains(algorithm_list, e.name)
=============================================================================
