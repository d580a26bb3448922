-------------------------- MODULE AdapterRegistry --------------------------
(***************************************************************************)
(* The tool adapters (registry/index.ts) and the catalog of integrations   *)
(* that indexes what they can do (integrations/index.ts, store.ts).  Every *)
(* command line loads them from the file that the server has open too.     *)
(* Every operation is a row of SQL statements with no transaction around   *)
(* it: another process may come between any two of them, and the process   *)
(* may die there.  A definition of an adapter is data; the words are those *)
(* that its texts are indexed under, which the entry keeps and which are   *)
(* counted when it is new.  No query asks for an order of the rows: the    *)
(* table is a set, and so is the map of adapters.  The total of tokens is  *)
(* kept like that of entries.                                              *)
(***************************************************************************)
EXTENDS Integers, FiniteSets, SequencesExt

CONSTANTS
    RegistryProcesses,    \* the server and the command lines
    Definitions,          \* [id, name, caps, words]: what an adapter may be registered as
    Defaults,             \* DEFAULT_ADAPTERS: a sequence of definitions
    BuiltIn,              \* what the catalog indexes of its own: [name, caps, words]
    MaxRegistrations,     \* bound
    MaxRegistryFaults     \* bound: crashes, and statements that fail

ASSUME RegistryAssumption ==
    /\ IsFiniteSet(RegistryProcesses)
    /\ Defaults \in Seq(Definitions) /\ Defaults # <<>>
    /\ IsFiniteSet(BuiltIn)
    /\ \A d \in Definitions \cup BuiltIn : IsFiniteSet(d.caps)
    /\ {MaxRegistrations, MaxRegistryFaults} \subseteq Nat

VARIABLES
    table,       \* tool_adapters: rows [def, enabled]
    adapters,    \* the map in memory, of each process
    ready,       \* initialize has come to its end
    stale,       \* processes that have read the table before another changed it
    todo,        \* what the operation under way has still to do with adapters
    catalog,     \* "none", "made", or "filled" with what it has of its own
    index,       \* what the indexing under way has still to do
    counting,    \* what is still to be counted of the entry that was inserted last
    tools,       \* integration_tools: how many there are of a name
    listed,      \* integration_entries: [tool, number, cap]
    frequency,   \* integration_terms: in how many entries a word was, when they came
    total,       \* integration_stats: how many entries there are
    registrations, registryFaults

adapterVars == <<table, adapters, ready, stale, todo>>
statisticVars == <<tools, listed, frequency, total>>
catalogVars == <<catalog, index, counting, statisticVars>>
registryBounds == <<registrations, registryFaults>>
registryVars == <<adapterVars, catalogVars, registryBounds>>

Words == UNION {d.words : d \in Definitions \cup BuiltIn}
ToolNames == {d.name : d \in Definitions \cup BuiltIn}

Unread == -1
NotCounting == [words |-> {}, entry |-> FALSE, read |-> Unread]

RegistryInit ==
    /\ table = {} /\ stale = {}
    /\ adapters = [p \in RegistryProcesses |-> {}]
    /\ ready = [p \in RegistryProcesses |-> FALSE]
    /\ todo = [p \in RegistryProcesses |-> <<[do |-> "load"]>>]
    /\ catalog = [p \in RegistryProcesses |-> "none"]
    /\ index = [p \in RegistryProcesses |-> <<>>]
    /\ counting = [p \in RegistryProcesses |-> NotCounting]
    /\ tools = [n \in ToolNames |-> 0] /\ listed = {}
    /\ frequency = [w \in Words |-> 0] /\ total = 0
    /\ registrations = 0 /\ registryFaults = 0

\* An entry that was inserted is counted before the indexing goes on, and the indexing
\* ends before the next adapter's turn.
Counted(p) == counting[p] = NotCounting
Indexing(p, item) == Counted(p) /\ index[p] # <<>> /\ Head(index[p]).do = item
Doing(p, item) ==
    Counted(p) /\ index[p] = <<>> /\ todo[p] # <<>> /\ Head(todo[p]).do = item

Goes(p, s) == todo' = [todo EXCEPT ![p] = s]
Indexes(p, s) == index' = [index EXCEPT ![p] = s]

-----------------------------------------------------------------------------
(* Adapters                                                                *)

Enabled == {row.def : row \in {r \in table : r.enabled}}

\* Nothing tells the other processes.
ChangesTable(p, rows) ==
    /\ table' = rows
    /\ stale' = IF rows = table THEN stale ELSE stale \cup (RegistryProcesses \ {p})

\* loadAdapters: without an enabled row it registers the defaults and calls itself.
Load(p) ==
    /\ Doing(p, "load")
    /\ \/ /\ Enabled = {}
          /\ Goes(p, [k \in DOMAIN Defaults |-> [do |-> "default", def |-> Defaults[k]]]
                        \o <<[do |-> "load"]>>)
          /\ UNCHANGED stale
       \/ /\ Enabled # {}
          /\ \E order \in Bijection(1 .. Cardinality(Enabled), Enabled) :
               Goes(p, [k \in DOMAIN order |-> [do |-> "adapter", def |-> order[k]]]
                           \o <<[do |-> "ready"]>>)
          /\ stale' = stale \ {p}
    /\ UNCHANGED <<table, adapters, ready, catalogVars, registryBounds>>

\* INSERT OR IGNORE.
Default(p) ==
    /\ Doing(p, "default")
    /\ LET d == Head(todo[p]).def IN
       ChangesTable(p, IF \E row \in table : row.def.id = d.id THEN table
                       ELSE table \cup {[def |-> d, enabled |-> TRUE]})
    /\ Goes(p, Tail(todo[p]))
    /\ UNCHANGED <<adapters, ready, catalogVars, registryBounds>>

\* The first call that asks for the catalog makes it index what it has of its own.
IndexAdapter(p, d) ==
    (IF catalog[p] = "none" THEN <<[do |-> "catalog"]>> ELSE <<>>)
        \o <<[do |-> "tool", def |-> d]>>

SetAdapter(p, d) == {a \in adapters[p] : a.id # d.id} \cup {d}

\* The adapter is set in memory, and its indexing begins.
Adapter(p) ==
    /\ Doing(p, "adapter")
    /\ adapters' = [adapters EXCEPT ![p] = SetAdapter(p, Head(todo[p]).def)]
    /\ Indexes(p, IndexAdapter(p, Head(todo[p]).def))
    /\ Goes(p, Tail(todo[p]))
    /\ UNCHANGED <<table, ready, stale, catalog, counting, statisticVars, registryBounds>>

Ready(p) ==
    /\ Doing(p, "ready")
    /\ ready' = [ready EXCEPT ![p] = TRUE]
    /\ Goes(p, Tail(todo[p]))
    /\ UNCHANGED <<table, adapters, stale, catalogVars, registryBounds>>

Delete(p) ==
    /\ Doing(p, "delete")
    /\ adapters' = [adapters EXCEPT ![p] = {a \in @ : a.id # Head(todo[p]).id}]
    /\ Goes(p, Tail(todo[p]))
    /\ UNCHANGED <<table, ready, stale, catalogVars, registryBounds>>

-----------------------------------------------------------------------------
(* The catalog                                                             *)

FillCatalog ==
    [k \in 1 .. Cardinality(BuiltIn) |-> [do |-> "tool", def |-> SetToSeq(BuiltIn)[k]]]
        \o <<[do |-> "filled"]>>

\* getIntegrationCatalog.
MakeCatalog(p) ==
    /\ Indexing(p, "catalog")
    /\ catalog' = [catalog EXCEPT ![p] = "made"]
    /\ Indexes(p, FillCatalog \o Tail(index[p]))
    /\ UNCHANGED <<adapterVars, counting, statisticVars, registryBounds>>

Filled(p) ==
    /\ Indexing(p, "filled")
    /\ catalog' = [catalog EXCEPT ![p] = "filled"]
    /\ Indexes(p, Tail(index[p]))
    /\ UNCHANGED <<adapterVars, counting, statisticVars, registryBounds>>

\* initialize of a catalog that another call made, and perhaps could not fill.
Integrations(p) ==
    /\ Doing(p, "integrations")
    /\ \/ catalog[p] = "filled" /\ Goes(p, Tail(todo[p])) /\ UNCHANGED <<catalog, index>>
       \/ /\ catalog[p] # "filled" /\ catalog' = [catalog EXCEPT ![p] = "made"]
          /\ Indexes(p, FillCatalog) /\ UNCHANGED todo
    /\ UNCHANGED <<table, adapters, ready, stale, counting, statisticVars, registryBounds>>

\* An entry for each capability of a tool.
Entries(d, n) ==
    [k \in 1 .. Cardinality(d.caps) |->
        [do |-> "entry", words |-> d.words,
         slot |-> [tool |-> d.name, number |-> n, cap |-> SetToSeq(d.caps)[k]]]]

\* upsertTool takes a tool of the name, if it finds one, and inserts one otherwise; no
\* constraint keeps another process from inserting it as well.
FindTool(p) ==
    /\ Indexing(p, "tool")
    /\ LET d == Head(index[p]).def IN
       \/ \E n \in 1 .. tools[d.name] : Indexes(p, Entries(d, n) \o Tail(index[p]))
       \/ /\ tools[d.name] = 0
          /\ Indexes(p, <<[do |-> "insertTool", def |-> d]>> \o Tail(index[p]))
    /\ UNCHANGED <<adapterVars, catalog, counting, statisticVars, registryBounds>>

InsertTool(p) ==
    /\ Indexing(p, "insertTool")
    /\ LET d == Head(index[p]).def IN
       /\ tools' = [tools EXCEPT ![d.name] = @ + 1]
       /\ Indexes(p, Entries(d, tools[d.name] + 1) \o Tail(index[p]))
    /\ UNCHANGED <<adapterVars, catalog, counting, listed, frequency, total, registryBounds>>

\* Mutation: an entry that is there already is inserted and counted again.
NeverListed(slot) == TRUE

Unlisted(slot) == slot \notin listed

\* upsertEntry updates the entry that it finds.
FindEntry(p) ==
    /\ Indexing(p, "entry")
    /\ LET e == Head(index[p]) IN
       Indexes(p, (IF Unlisted(e.slot) THEN <<[e EXCEPT !.do = "insert"]>> ELSE <<>>)
                      \o Tail(index[p]))
    /\ UNCHANGED <<adapterVars, catalog, counting, statisticVars, registryBounds>>

\* The process goes, and another comes up in its place.
Restart(p) ==
    /\ adapters' = [adapters EXCEPT ![p] = {}] /\ ready' = [ready EXCEPT ![p] = FALSE]
    /\ catalog' = [catalog EXCEPT ![p] = "none"]
    /\ Goes(p, <<[do |-> "load"]>>)

\* An error while an adapter is indexed is logged, and the next one has its turn; in
\* initializeIntegrations it ends the process.
IndexingStops(p) ==
    /\ Indexes(p, <<>>) /\ counting' = [counting EXCEPT ![p] = NotCounting]
    /\ IF todo[p] # <<>> /\ Head(todo[p]).do = "integrations"
       THEN Restart(p) ELSE UNCHANGED <<adapters, ready, catalog, todo>>
    /\ UNCHANGED <<table, stale, statisticVars>>

\* Another process may have inserted the entry in between: the table takes no second one.
InsertEntry(p) ==
    /\ Indexing(p, "insert")
    /\ LET e == Head(index[p]) IN
       \/ /\ Unlisted(e.slot)
          /\ listed' = listed \cup {e.slot}
          /\ counting' = [counting EXCEPT
                 ![p] = [words |-> e.words, entry |-> TRUE, read |-> Unread]]
          /\ Indexes(p, Tail(index[p]))
          /\ UNCHANGED <<adapterVars, catalog, tools, frequency, total>>
       \/ ~Unlisted(e.slot) /\ IndexingStops(p)
    /\ UNCHANGED registryBounds

\* updateTermStats.
CountWord(p) ==
    /\ \E w \in counting[p].words :
        /\ frequency' = [frequency EXCEPT ![w] = @ + 1]
        /\ counting' = [counting EXCEPT ![p].words = @ \ {w}]
    /\ UNCHANGED <<adapterVars, catalog, index, tools, listed, total, registryBounds>>

\* updateStats reads the total and then writes it.
ReadTotal(p) ==
    /\ counting[p].entry /\ counting[p].words = {} /\ counting[p].read = Unread
    /\ counting' = [counting EXCEPT ![p].read = total]
    /\ UNCHANGED <<adapterVars, catalog, index, statisticVars, registryBounds>>

WriteTotal(p) ==
    /\ counting[p].read # Unread
    /\ total' = counting[p].read + 1
    /\ counting' = [counting EXCEPT ![p] = NotCounting]
    /\ UNCHANGED <<adapterVars, catalog, index, tools, listed, frequency, registryBounds>>

-----------------------------------------------------------------------------
(* Operations and failures                                                 *)

Free(p) == ready[p] /\ todo[p] = <<>> /\ index[p] = <<>> /\ Counted(p)

\* INSERT OR REPLACE.
RegisterAdapter(p, d) ==
    /\ Free(p) /\ registrations < MaxRegistrations
    /\ registrations' = registrations + 1
    /\ ChangesTable(p, {row \in table : row.def.id # d.id} \cup {[def |-> d, enabled |-> TRUE]})
    /\ Goes(p, <<[do |-> "adapter", def |-> d]>>)
    /\ UNCHANGED <<adapters, ready, catalogVars, registryFaults>>

\* The row stays, and so does what the catalog has of it.
DisableAdapter(p, id) ==
    /\ Free(p)
    /\ ChangesTable(p, {[row EXCEPT !.enabled = @ /\ row.def.id # id] : row \in table})
    /\ Goes(p, <<[do |-> "delete", id |-> id]>>)
    /\ UNCHANGED <<adapters, ready, catalogVars, registryBounds>>

\* initializeIntegrations, which the server calls once the registry is ready.
InitializeIntegrations(p) ==
    /\ Free(p) /\ catalog[p] # "filled"
    /\ Goes(p, <<[do |-> "integrations"]>>)
    /\ UNCHANGED <<table, adapters, ready, stale, catalogVars, registryBounds>>

\* Some statement of the indexing throws (one of loadAdapters' ends the process).
StatementFails(p) ==
    /\ registryFaults < MaxRegistryFaults /\ (index[p] # <<>> \/ ~Counted(p))
    /\ registryFaults' = registryFaults + 1
    /\ IndexingStops(p)
    /\ UNCHANGED registrations

RegistryCrash(p) ==
    /\ registryFaults < MaxRegistryFaults
    /\ registryFaults' = registryFaults + 1
    /\ Restart(p) /\ Indexes(p, <<>>) /\ counting' = [counting EXCEPT ![p] = NotCounting]
    /\ UNCHANGED <<table, stale, statisticVars, registrations>>

Statement(p) ==
    \/ Load(p) \/ Default(p) \/ Adapter(p) \/ Ready(p) \/ Delete(p)
    \/ MakeCatalog(p) \/ Filled(p) \/ Integrations(p) \/ FindTool(p) \/ InsertTool(p)
    \/ FindEntry(p) \/ InsertEntry(p) \/ CountWord(p) \/ ReadTotal(p) \/ WriteTotal(p)

RegistryNext ==
    \E p \in RegistryProcesses :
        \/ Statement(p) \/ InitializeIntegrations(p) \/ StatementFails(p) \/ RegistryCrash(p)
        \/ \E d \in Definitions : RegisterAdapter(p, d) \/ DisableAdapter(p, d.id)

RegistryFairness == \A p \in RegistryProcesses : WF_registryVars(Statement(p))

RegistrySpec == RegistryInit /\ [][RegistryNext]_registryVars /\ RegistryFairness

-----------------------------------------------------------------------------
\* Type invariant.
RegistryTypeOK ==
    /\ table \subseteq [def : Definitions, enabled : BOOLEAN]
    /\ adapters \in [RegistryProcesses -> SUBSET Definitions]
    /\ ready \in [RegistryProcesses -> BOOLEAN] /\ stale \subseteq RegistryProcesses
    /\ catalog \in [RegistryProcesses -> {"none", "made", "filled"}]
    /\ counting \in [RegistryProcesses ->
                        [words : SUBSET Words, entry : BOOLEAN, read : Nat \cup {Unread}]]
    /\ tools \in [ToolNames -> Nat] /\ frequency \in [Words -> Nat] /\ total \in Nat
    /\ registrations \in 0 .. MaxRegistrations /\ registryFaults \in 0 .. MaxRegistryFaults

\* A registry that is ready has in memory exactly the enabled rows, as they were last
\* registered, whatever was registered, disabled and interrupted before; only a change that
\* another process made after it had read them can make a difference.
MemoryIsTable ==
    \A p \in RegistryProcesses : Free(p) /\ p \notin stale =>
        adapters[p] = Enabled /\ \A a, b \in adapters[p] : a.id = b.id => a = b

\* The statistics of the search never count an entry twice, although processes index the
\* same adapters at once and overwrite the total: no word is in more entries than there are,
\* and the total is not more than that.
StatisticsAreSound ==
    /\ \A w \in Words : frequency[w] <= Cardinality(listed)
    /\ total <= Cardinality(listed)

\* Nothing is under way; or every default is in the table and no row is enabled, and
\* loadAdapters, with nothing to load and nothing to register, calls itself for ever.
Loaded(p) ==
    \/ todo[p] = <<>> /\ index[p] = <<>> /\ Counted(p)
    \/ /\ Enabled = {}
       /\ \A k \in DOMAIN Defaults : \E row \in table : row.def.id = Defaults[k].id

\* Start-up ends, unless all adapters were disabled.
LoadingEnds == \A p \in RegistryProcesses : []<>Loaded(p)
=============================================================================
