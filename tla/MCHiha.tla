-------------------------------- MODULE MCHiha --------------------------------
(***************************************************************************)
(* Command lines of up to three plugins, one of them there as two files,   *)
(* and a directory of five whose passes are seven, of which pred selects   *)
(* no more than MaxSelected.                                               *)
(***************************************************************************)
EXTENDS Hiha

Here(n) == File("here", n)
There(n) == File("there", n)

MCLibraries == {Here(n) : n \in {0, 30, 80, 90, 100, 110}}
                  \cup {There(n) : n \in {30, 50, 80, 90, 100, 110}}
MCPluginInit == [f \in MCLibraries |-> PluginInitOf(f)]

AllEntries == UNION {{PluginInitOf(f)[k] : k \in DOMAIN PluginInitOf(f)} :
                        f \in MCLibraries}

MCSlots == {e.slot : e \in AllEntries} \cup {Default}
              \cup UNION {Makes(p) : p \in Names}
MCPassthrough == <<NoFile, "passthrough_nud_handler">>
MCHandlers == {e.handler : e \in AllEntries} \cup {MCPassthrough}
MCVariables == {e.saves : e \in AllEntries} \ {Nothing}

MCDirectories ==
    [d \in {[directory |-> "there"]} |->
        {[file |-> There(n), name |-> "plugin"] : n \in {30, 50, 80, 100, 110}}
            \cup {[file |-> There(90), name |-> "lib"]}]

OtherOption(tag) == [tag |-> tag]

MCCommandLines ==
    {[options |-> o, files |-> 1] : o \in {
        <<>>,
        <<Plugin(Here(0)), Plugin(Here(30))>>,
        <<Plugin(Here(80)), Plugin(Here(30))>>,
        <<Plugin(Here(90)), OtherOption("dump")>>,
        <<Plugin(Here(110)), Plugin(Here(100))>>,
        <<Plugin(Here(30)), Plugin(There(30)), Plugin(Here(80))>>,
        <<Plugin(There(90)), Plugin(Here(90))>>,
        <<Plugin(Here(30)), Plugin(Here(30))>>,
        <<[tag |-> "plugindir", locator |-> [directory |-> "there"]]>>,
        <<Plugin(Here(80)), OtherOption("usage")>>}}
    \cup {[options |-> <<Plugin(Here(80))>>, files |-> 0]}
===============================================================================
