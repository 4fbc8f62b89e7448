---------------------------------- MODULE Hiha ----------------------------------
(***************************************************************************)
(* The program: main of src/hiha/hiha.c, from the command line to the      *)
(* exit.  It composes the registry of passes that the plugins it loads     *)
(* fill (PrattTables) with the passes that are then done (PrattPasses).    *)
(*                                                                         *)
(* The passes are those that have tables, in the order of their names.     *)
(* Within a pass each token is given to the handler the tables of the pass *)
(* have for its kind, and that may pass it on to the one its plugin has    *)
(* saved.  A call that never comes back is a pass that never ends.         *)
(*                                                                         *)
(* Every file or directory that main opens may fail to open, which ends    *)
(* the program.                                                            *)
(***************************************************************************)
EXTENDS PrattPasses, PrattTables, Plugins

CONSTANTS
    CommandLines,       \* records of options and of the number of FILES
    Directories,        \* the entries of each directory
    MaxSelected         \* bound: passes that pred selects

Options == [tag : {"plugin"}, locator : Libraries]
              \cup [tag : {"plugindir"}, locator : DOMAIN Directories]
              \cup [tag : {"dump", "usage"}]

ASSUME CommandsAssumption ==
    /\ \A c \in CommandLines : c.options \in Seq(Options)
    /\ \A d \in DOMAIN Directories :
          IsFiniteSet(Directories[d]) /\ \A e \in Directories[d] : e.file \in Libraries

\* The plugins are those of src/plugins.
ASSUME PluginsAssumption ==
    /\ PluginInit = [f \in Libraries |-> PluginInitOf(f)]
    /\ PassNames = Names
    /\ DefaultNud = Default
    /\ Null = Nothing
    /\ {"CP", "EOF"} \cup UNION {Makes(p) : p \in Names} \subseteq Slots

VARIABLES
    stage,              \* where main is before the passes
    options,            \* the options getopt_long has yet to return
    files,              \* the source files
    dumps,              \* there is a file name for a stream of dumps
    plugins,            \* opts->plugins, and of each directory its files
    call                \* the handler that has been called in a pass

startVars == <<stage, options, files, dumps, plugins>>
hihaVars == <<vars, tableVars, startVars, call>>

Idle == Null

Plugin(file) == [tag |-> "plugin", locator |-> file]

-------------------------------------------------------------------------------
\* Options.

\* get_options
GetOption ==
    /\ pc = "begin" /\ stage = "options"
    /\ options # <<>>
    /\ Head(options).tag # "usage"
    /\ options' = Tail(options)
    /\ plugins' = IF Head(options).tag \in {"plugin", "plugindir"}
                  THEN Append(plugins, Head(options)) ELSE plugins
    /\ dumps' = (dumps \/ Head(options).tag = "dump")
    /\ UNCHANGED <<vars, tableVars, stage, files, call>>

\* --help, --version, or what getopt_long does not know.
GetUsageOption ==
    /\ stage = "options"
    /\ options # <<>>
    /\ Head(options).tag = "usage"
    /\ ExitEarly
    /\ UNCHANGED <<tableVars, startVars, call>>

\* check_usage
CheckUsage ==
    /\ pc = "begin" /\ stage = "options"
    /\ options = <<>>
    /\ IF files = 0
       THEN ExitEarly /\ UNCHANGED stage
       ELSE stage' = "load" /\ UNCHANGED vars
    /\ UNCHANGED <<tableVars, options, files, dumps, plugins, call>>

-------------------------------------------------------------------------------
\* load_command_line_plugins.

\* plugin_filter
Accepted(directory) == {e \in Directories[directory] : e.name = "plugin"}

\* load_one_plugindir, scandir having sorted the files by filevercmp: what
\* their names begin with is different numbers.
ReadDirectory ==
    /\ pc = "begin" /\ stage = "load" /\ todo = <<>>
    /\ plugins # <<>>
    /\ Head(plugins).tag = "plugindir"
    /\ LET accepted == Accepted(Head(plugins).locator)
       IN  \E namelist \in [1 .. Cardinality(accepted) -> accepted] :
              /\ \A m, n \in DOMAIN namelist : m < n =>
                    namelist[m].file.number < namelist[n].file.number
              /\ plugins' = [n \in DOMAIN namelist |-> Plugin(namelist[n].file)]
                               \o Tail(plugins)
    /\ UNCHANGED <<vars, tableVars, stage, options, files, dumps, call>>

\* load_one_plugin
LoadOnePlugin ==
    /\ pc = "begin" /\ stage = "load"
    /\ plugins # <<>>
    /\ Head(plugins).tag = "plugin"
    /\ LoadPlugin(Head(plugins).locator)
    /\ plugins' = Tail(plugins)
    /\ UNCHANGED <<vars, stage, options, files, dumps, call>>

\* The rest of the plugin_init of the plugin just loaded.
PluginInits ==
    /\ pc = "begin"
    /\ MakeEntry
    /\ UNCHANGED <<vars, startVars, call>>

PluginsLoaded ==
    /\ pc = "begin" /\ stage = "load" /\ todo = <<>>
    /\ plugins = <<>>
    /\ stage' = "passes"
    /\ UNCHANGED <<vars, tableVars, options, files, dumps, plugins, call>>

\* dlopen, scandir, or fopen for a stream of dumps.
OpeningFails ==
    /\ \/ stage = "load" /\ todo = <<>> /\ plugins # <<>>
       \/ stage = "passes" /\ dumps
    /\ ExitEarly
    /\ UNCHANGED <<tableVars, startVars, call>>

-------------------------------------------------------------------------------
\* The passes.

\* The passes that have tables, in the order of _pratt_tables_map.
Present == {p \in PassNames : HasTables(p)}
PassAt(n) ==
    CHOOSE p \in Present : Cardinality({q \in Present : Before(q, p)}) = n - 1

\* do_pratt_passes begins, main's pred being one that may select them all.
DoPrattPasses ==
    /\ stage = "passes"
    /\ GetTables
    /\ n_vec' = Cardinality(Present)
    /\ LET chosen == {p \in Passes : selected'[p]}
       IN  chosen \subseteq 1 .. n_vec' /\ Cardinality(chosen) <= MaxSelected
    /\ UNCHANGED <<tableVars, startVars, call>>

\* The kinds of token that the passes a file went through have left in it.
KindsIn(root) ==
    {"CP"} \cup UNION {Makes(PassAt(disk[root].passes[k])) :
                          k \in DOMAIN disk[root].passes}

\* Mutant: the tables are those of the entry before.
CallHandlerBefore ==
    /\ pc = "pass" /\ call = Idle
    /\ \/ /\ unread > 0
          /\ \E kind \in KindsIn(fn_root1) :
               call' = NudGet(tables[PassAt(IF i = 0 THEN 1 ELSE i)], kind)
       \/ /\ unread = 0
          /\ disk[fn_root1].eof /\ ~ disk[fn_root1].short
          /\ call' = NudGet(tables[PassAt(IF i = 0 THEN 1 ELSE i)], "EOF")
    /\ UNCHANGED <<vars, tableVars, startVars>>

\* execute_null_denotation
CallHandler ==
    /\ pc = "pass" /\ call = Idle
    /\ \/ /\ unread > 0
          /\ \E kind \in KindsIn(fn_root1) :
               call' = NudGet(tables[PassAt(i + 1)], kind)
       \/ /\ unread = 0
          /\ disk[fn_root1].eof /\ ~ disk[fn_root1].short
          /\ call' = NudGet(tables[PassAt(i + 1)], "EOF")
    /\ UNCHANGED <<vars, tableVars, startVars>>

\* The variables a handler passes its token on to.
PassesOnTo(handler) ==
    {made[k].saves : k \in {l \in DOMAIN made : made[l].handler = handler}} \ {Null}

PassOn ==
    /\ call # Idle
    /\ pc = "pass"
    /\ \E v \in PassesOnTo(call) : call' = saved[v]
    /\ UNCHANGED <<vars, tableVars, startVars>>

\* A handler returns, and pratt_parse after it.
HandlerReturns ==
    /\ call # Idle
    /\ ~ OnlyPassesOn(call)
    /\ ParseToken \/ ParseEof
    /\ call' = Idle
    /\ UNCHANGED <<tableVars, startVars>>

\* What PrattPasses does apart from that.
RegularStep ==
    /\ OpenScan \/ ScanToken \/ ScanEof \/ CloseScan \/ SkipPass \/ OpenPass
         \/ CloseGetter \/ CloseOutput \/ RemoveSource \/ EndPass \/ ReturnRoot
         \/ ExitMain \/ RemoveFile \/ RemoveDirectory
    /\ call' = Idle
    /\ UNCHANGED <<tableVars, startVars>>

\* Errors, within a call too.
FailingStep ==
    /\ OpenScanExits \/ ScanFails \/ ParseFails \/ FileErrorExits \/ RemovalFails
    /\ call' = Idle
    /\ UNCHANGED <<tableVars, startVars>>

OtherStep == RegularStep \/ FailingStep

\* The next token refers to the entry that is missing from files that are short.
MissingEntryExits ==
    /\ pc = "pass" /\ call = Idle
    /\ unread = 0 /\ disk[fn_root1].short
    /\ FileErrorExits
    /\ UNCHANGED <<tableVars, startVars, call>>

HihaKill == Kill /\ UNCHANGED <<tableVars, startVars, call>>

-------------------------------------------------------------------------------

HihaInit ==
    /\ Init
    /\ TablesInit
    /\ stage = "options"
    /\ \E c \in CommandLines : options = c.options /\ files = c.files
    /\ dumps = FALSE
    /\ plugins = <<>>
    /\ call = Idle

RegularStart == GetOption \/ GetUsageOption \/ CheckUsage \/ ReadDirectory
                   \/ LoadOnePlugin \/ PluginInits \/ PluginsLoaded

Start == RegularStart \/ OpeningFails

HihaProgram == Start \/ DoPrattPasses \/ CallHandler \/ PassOn
                  \/ HandlerReturns \/ OtherStep

HihaNext == HihaProgram \/ HihaKill

HihaSpec == HihaInit /\ [][HihaNext]_hihaVars

\* What one thread does without anything going wrong.  Of a handler that saves
\* what it finds it is only sure that it passes tokens on: those it does not
\* take.  One that saves nothing returns.
Work ==
    \/ RegularStart \/ DoPrattPasses \/ CallHandler \/ PassOn \/ RegularStep
    \/ MissingEntryExits
    \/ PassesOnTo(call) = {} /\ HandlerReturns

\* The thread runs on.  No error and no kill is sure to happen, so that none of
\* them ends what would go on for ever.
HihaFairSpec == HihaSpec /\ WF_hihaVars(Work)

-------------------------------------------------------------------------------

\* Two loadings of one library, or of two files that hold the same plugin.
LoadedTwice == \E a, b \in DOMAIN loaded : a # b /\ loaded[a] = loaded[b]
SamePluginTwice ==
    \E a, b \in DOMAIN loaded : a # b /\ loaded[a].number = loaded[b].number

\* The handlers that are called in a pass are those that were put into its own
\* tables, though the plugin that dumps tokens saves what it finds in two
\* passes in one variable: unless some plugin is there twice, the second has
\* nothing to find (execute_null_denotation, plugin_init of 90-dump_tokens.c).
OwnHandlers ==
    call # Idle /\ ~ SamePluginTwice
        => \/ call = Passthrough
           \/ \E k \in DOMAIN made : /\ made[k].pass = PassAt(i + 1)
                                     /\ made[k].handler = call

\* A pass comes after those that make the kinds of token it has handlers for,
\* whatever plugins there are and in whatever order they were loaded (the
\* numbers the names begin with, which filevercmp compares as numbers).
KindsMadeBefore ==
    pc = "start" =>
        \A m, n \in 1 .. n_vec, k \in DOMAIN made :
            made[k].pass = PassAt(n) /\ made[k].slot \in Makes(PassAt(m)) => m < n

\* Main is over, and the working directory gone unless the program was killed or
\* a file cannot be removed.
Ended == pc \in {"killed", "not removed"} \/ (pc = "exited" /\ ~ work_directory)

\* Whatever goes wrong, and also when no handler takes a token, main comes to
\* its end.  A library that is loaded twice is the exception: its handlers have
\* themselves to pass tokens on to, and so the program may stay in a call.
EndsUnlessTwice == <>Ended \/ <>[](LoadedTwice /\ call # Idle)
================================================================================
