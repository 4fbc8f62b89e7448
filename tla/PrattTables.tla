------------------------------ MODULE PrattTables ------------------------------
(***************************************************************************)
(* The registry of passes of src/libhiha/pratt.c, as the plugin_init of    *)
(* each plugin fills it, one plugin after the other                        *)
(* (src/libhiha/load_plugin.c).                                            *)
(*                                                                         *)
(* The tables of a pass have a slot for each kind of token they know and   *)
(* one for the default null denotation.  A plugin_init is a sequence of    *)
(* entries: it gets what it finds for a slot, saves that in a variable of  *)
(* the plugin if it means to pass tokens on to it, and puts its own        *)
(* handler there.  acquire_pratt_tables_lock keeps other threads out, and  *)
(* set_pratt_tables_for_pass stores the pointer that                       *)
(* get_pratt_tables_for_pass returned.  What is put into a slot for a left *)
(* denotation or a binding power is a handler here too.                    *)
(***************************************************************************)
EXTENDS Naturals, Sequences

CONSTANTS
    Libraries,          \* the files that can be opened as libraries
    PluginInit,         \* the entries each of them makes
    PassNames,          \* the names of passes
    Slots,              \* of the tables of a pass
    DefaultNud,         \* the slot that nud_default is
    Handlers,           \* what can be put into a slot
    Passthrough,        \* passthrough_nud_handler
    Null,               \* there is no handler
    Variables           \* of the plugins

Entries == [pass : PassNames, slot : Slots, handler : Handlers,
            saves : Variables \cup {Null}]

ASSUME TablesAssumption ==
    /\ DefaultNud \in Slots
    /\ Passthrough \in Handlers
    /\ Null \notin Handlers \cup Variables
    /\ PluginInit \in [Libraries -> Seq(Entries)]

VARIABLES
    tables,             \* the tables of each pass
    saved,              \* the variables of the plugins
    todo,               \* the entries a plugin_init has still to make
    loaded,             \* history: the libraries in the order of their loading
    made                \* history: the entries in the order of their making

tableVars == <<tables, saved, todo, loaded, made>>

NoTables == [s \in Slots |-> Null]

\* make_pratt_tables_t
MakeTables == [NoTables EXCEPT ![DefaultNud] = Passthrough]

HasTables(pass) == tables[pass] # NoTables

\* get_pratt_tables_for_pass
TablesOf(pass) == IF HasTables(pass) THEN tables[pass] ELSE MakeTables

\* pratt_nud_get and pratt_nud_get_default
NudGet(t, slot) == IF t[slot] # Null THEN t[slot] ELSE t[DefaultNud]

-------------------------------------------------------------------------------

TablesInit ==
    /\ tables = [p \in PassNames |-> NoTables]
    /\ saved = [v \in Variables |-> Null]
    /\ todo = <<>>
    /\ loaded = <<>>
    /\ made = <<>>

\* load_plugin.  A library that is open already is not opened again: its
\* variables are those it has, and plugin_init is called once more.
LoadPlugin(library) ==
    /\ todo = <<>>
    /\ todo' = PluginInit[library]
    /\ loaded' = Append(loaded, library)
    /\ UNCHANGED <<tables, saved, made>>

\* Mutant: the handler is put before the one it is to pass tokens on to is got.
MakeEntryFirst ==
    /\ todo # <<>>
    /\ LET e == Head(todo)
           t == [TablesOf(e.pass) EXCEPT ![e.slot] = e.handler]
       IN  /\ saved' = IF e.saves = Null THEN saved
                       ELSE [saved EXCEPT ![e.saves] = NudGet(t, e.slot)]
           /\ tables' = [tables EXCEPT ![e.pass] = t]
           /\ made' = Append(made, e)
    /\ todo' = Tail(todo)
    /\ UNCHANGED loaded

MakeEntry ==
    /\ todo # <<>>
    /\ LET e == Head(todo)
           t == TablesOf(e.pass)
       IN  /\ saved' = IF e.saves = Null THEN saved
                       ELSE [saved EXCEPT ![e.saves] = NudGet(t, e.slot)]
           /\ tables' = [tables EXCEPT ![e.pass] = [t EXCEPT ![e.slot] = e.handler]]
           /\ made' = Append(made, e)
    /\ todo' = Tail(todo)
    /\ UNCHANGED loaded

TablesNext == (\E library \in Libraries : LoadPlugin(library)) \/ MakeEntry

TablesSpec == TablesInit /\ [][TablesNext]_tableVars

-------------------------------------------------------------------------------

\* The entries among the first n that are for a slot of a pass.
EntriesFor(entries, n, pass, slot) ==
    {k \in 1 .. n : entries[k].pass = pass /\ entries[k].slot = slot}

\* The handler that the last of some entries put.
IsLatest(handler, entries, ks) ==
    \E k \in ks : handler = entries[k].handler /\ \A l \in ks : l <= k

\* What was there for a slot of a pass after the first n entries: what was put
\* last for it, or else for the default, or else passthrough_nud_handler.
WasThere(handler, entries, n, pass, slot) ==
    LET puts == EntriesFor(entries, n, pass, slot)
        defaults == EntriesFor(entries, n, pass, DefaultNud)
    IN  \/ IsLatest(handler, entries, puts)
        \/ puts = {} /\ IsLatest(handler, entries, defaults)
        \/ puts \cup defaults = {} /\ handler = Passthrough

\* The last of the entries that save what they find in a variable.
SavesLast(entries, n) ==
    /\ entries[n].saves # Null
    /\ \A k \in 1 .. Len(entries) : entries[k].saves = entries[n].saves => k <= n

\* Every variable holds the handler that was there, in the same pass and for the
\* same slot, right before the last entry that saves into it: the latest that
\* had been put, so that none is left out between them.  Handlers pass tokens
\* on to what the variable holds, also when it was assigned more than once.  So
\* both handlers of 90-dump_tokens go on to what the second of its passes held,
\* and a library that is loaded twice to what it had itself put the first time.
SavesFormer ==
    \A n \in 1 .. Len(made) :
        SavesLast(made, n)
            => WasThere(saved[made[n].saves], made, n - 1, made[n].pass, made[n].slot)
===============================================================================
