---------------------------- MODULE StarkNetNode ----------------------------
(***************************************************************************)
(* StarkNetNode::builder and StarkNetNodeBuilder (src/starknet/src/       *)
(* node.rs): parse the provider url, configure, create the datadir and    *)
(* open the database; then StarkNetNode::start: ensure the tables,        *)
(* spawn block ingestion, the healer and the server, each with a clone of  *)
(* the cancellation token, then wait in a select! for the first of them to *)
(* end.  The tasks' bodies are not in this repository: as the              *)
(* specification says (section 5, cancellation), a task ends Ok once the  *)
(* token is cancelled, and may end with a fatal error at any time.         *)
(***************************************************************************)
EXTENDS Naturals

Tasks == {"ingestion", "healer", "server"}

VARIABLES
    pc,        \* where the node is: "new", "configure" (builder), "ensure",
               \* "spawnIngestion", "spawnHealer", "spawnServer", "select",
               \* "returned"
    result,    \* what the builder or start returned: "none", "ok", "err"
               \* (a start error) or a BuilderErrors member
    builder,   \* the StarkNetNodeBuilder's settings, NoBuilder before new
    task,      \* task[t]: "none" (not spawned), "running", or in Done
    token,     \* token[t]: the task was given a clone of ct
    cancelled  \* ct.is_cancelled()

vars == <<pc, result, builder, task, token, cancelled>>

\* How a JoinHandle completes: Ok(Ok(())), Ok(Err(_)) or Err(JoinError) when
\* the task panicked.
Done == {"ok", "err", "panic"}

\* How building the node fails: StarkNetNodeBuilderError::ProviderUrl,
\* the panic of expect("no datadir"), CreateDatadir and DatabaseOpen.
BuilderErrors == {"providerUrl", "noDatadir", "createDatadir", "databaseOpen"}

\* The builder's fields, abstracted to whether they keep their default.
Builders == [datadir : {"default", "custom"}, pollInterval : {"default", "custom"},
             observer : {"simple", "custom"}]

\* No builder exists yet.
NoBuilder == [datadir |-> "none", pollInterval |-> "none", observer |-> "none"]

NodeTypeOK ==
    /\ pc \in {"new", "configure", "ensure", "spawnIngestion", "spawnHealer",
               "spawnServer", "select", "returned"}
    /\ result \in {"none", "ok", "err"} \cup BuilderErrors
    /\ builder \in Builders \cup {NoBuilder}
    /\ task \in [Tasks -> {"none", "running"} \cup Done]
    /\ token \in [Tasks -> BOOLEAN]
    /\ cancelled \in BOOLEAN

Init ==
    /\ pc = "new"
    /\ result = "none"
    /\ builder = NoBuilder
    /\ task = [t \in Tasks |-> "none"]
    /\ token = [t \in Tasks |-> FALSE]
    /\ cancelled = FALSE

(***************************************************************************)
(* StarkNetNode::builder(url), i.e. StarkNetNodeBuilder::new: the default  *)
(* datadir (default_data_dir joined with "starknet", a panic when there is *)
(* none), the url parsed (ProviderUrl on failure), the poll interval of    *)
(* 5 s and a SimpleRequestObserver.                                         *)
(***************************************************************************)
BuilderNew ==
    /\ pc = "new"
    /\ \E out \in {"ok", "noDatadir", "providerUrl"} :
         IF out = "ok"
           THEN /\ pc' = "configure"
                /\ builder' = [datadir |-> "default", pollInterval |-> "default",
                               observer |-> "simple"]
                /\ UNCHANGED result
           ELSE pc' = "returned" /\ result' = out /\ UNCHANGED builder
    /\ UNCHANGED <<task, token, cancelled>>

\* with_datadir, with_poll_interval and with_request_observer replace one
\* field of the builder.
WithDatadir ==
    /\ pc = "configure"
    /\ builder' = [builder EXCEPT !.datadir = "custom"]
    /\ UNCHANGED <<pc, result, task, token, cancelled>>

WithPollInterval ==
    /\ pc = "configure"
    /\ builder' = [builder EXCEPT !.pollInterval = "custom"]
    /\ UNCHANGED <<pc, result, task, token, cancelled>>

WithRequestObserver ==
    /\ pc = "configure"
    /\ builder' = [builder EXCEPT !.observer = "custom"]
    /\ UNCHANGED <<pc, result, task, token, cancelled>>

(***************************************************************************)
(* build: fs::create_dir_all of the datadir, then the mdbx environment     *)
(* opened there, each failure returned; on success StarkNetNode::new wraps *)
(* the database and the provider, and start may be called.                 *)
(***************************************************************************)
Build ==
    /\ pc = "configure"
    /\ \E out \in {"ok", "createDatadir", "databaseOpen"} :
         IF out = "ok" THEN pc' = "ensure" /\ UNCHANGED result
                       ELSE pc' = "returned" /\ result' = out
    /\ UNCHANGED <<builder, task, token, cancelled>>

\* ensure_tables: a read-write transaction; any database error is returned.
EnsureTables ==
    /\ pc = "ensure"
    /\ \/ pc' = "spawnIngestion" /\ UNCHANGED result
       \/ pc' = "returned" /\ result' = "err"
    /\ UNCHANGED <<builder, task, token, cancelled>>

\* tokio::spawn of a task moving a clone of ct.
Spawn(t) ==
    /\ task' = [task EXCEPT ![t] = "running"]
    /\ token' = [token EXCEPT ![t] = TRUE]

SpawnIngestion ==
    /\ pc = "spawnIngestion"
    /\ Spawn("ingestion")
    /\ pc' = "spawnHealer"
    /\ UNCHANGED <<result, builder, cancelled>>

SpawnHealer ==
    /\ pc = "spawnHealer"
    /\ Spawn("healer")
    /\ pc' = "spawnServer"
    /\ UNCHANGED <<result, builder, cancelled>>

\* Mutant: the server is spawned with a token of its own, not a clone of ct.
SpawnServerOwnToken ==
    /\ pc = "spawnServer"
    /\ task' = [task EXCEPT !["server"] = "running"]
    /\ token' = [token EXCEPT !["server"] = FALSE]
    /\ pc' = "select"
    /\ UNCHANGED <<result, builder, cancelled>>

\* The server address is the literal "0.0.0.0:7171", whose parse succeeds.
SpawnServer ==
    /\ pc = "spawnServer"
    /\ Spawn("server")
    /\ pc' = "select"
    /\ UNCHANGED <<result, builder, cancelled>>

\* select! over the three handles: the first to complete is logged and
\* start returns Ok(()) whatever it completed with.
Select ==
    /\ pc = "select"
    /\ \E t \in Tasks : task[t] \in Done
    /\ pc' = "returned"
    /\ result' = "ok"
    /\ UNCHANGED <<builder, task, token, cancelled>>

\* A task ends: Ok once it sees its token cancelled, or with a fatal error,
\* or by a panic that tokio turns into a JoinError.
TaskEnds(t) ==
    /\ task[t] = "running"
    /\ \/ cancelled /\ token[t] /\ task' = [task EXCEPT ![t] = "ok"]
       \/ task' = [task EXCEPT ![t] = "err"]
       \/ task' = [task EXCEPT ![t] = "panic"]
    /\ UNCHANGED <<pc, result, builder, token, cancelled>>

\* The node's cancellation token is triggered (for instance on ctrl-c).
Cancel ==
    /\ ~cancelled
    /\ cancelled' = TRUE
    /\ UNCHANGED <<pc, result, builder, task, token>>

Next ==
    \/ BuilderNew \/ WithDatadir \/ WithPollInterval \/ WithRequestObserver
    \/ Build
    \/ EnsureTables \/ SpawnIngestion \/ SpawnHealer \/ SpawnServer \/ Select
    \/ \E t \in Tasks : TaskEnds(t)
    \/ Cancel

\* The caller builds the node once it has configured it, and start runs
\* on the runtime and is polled while it can progress; a task
\* observes a cancelled token at its next suspension point (spec section 5),
\* so its ending once cancelled is weakly fair.
CancelledEnd(t) == cancelled /\ token[t] /\ task[t] = "running"
                   /\ task' = [task EXCEPT ![t] = "ok"]
                   /\ UNCHANGED <<pc, result, builder, token, cancelled>>

Spec == Init /\ [][Next]_vars
        /\ WF_vars(BuilderNew \/ Build \/ EnsureTables \/ SpawnIngestion \/ SpawnHealer \/ SpawnServer
                   \/ Select)
        /\ \A t \in Tasks : WF_vars(CancelledEnd(t))

-----------------------------------------------------------------------------
(* Properties *)

(***************************************************************************)
(* Shutdown: once the token is cancelled, start returns and every task it  *)
(* spawned stops, because each was handed a clone of the token.            *)
(***************************************************************************)
ShutdownCompletes ==
    cancelled ~> (pc = "returned" /\ \A t \in Tasks : task[t] # "running")

(***************************************************************************)
(* start returns Ok only after a clean shutdown: every task it spawned has *)
(* ended, and none with an error or a panic.  The TODO at node.rs:118 says *)
(* start must wait for the other handles; spec section 5 says the pipeline *)
(* drains on cancellation and section 7 that a fatal runtime error exits   *)
(* with code 2.                                                            *)
(***************************************************************************)
OkMeansCleanShutdown ==
    result = "ok" => \A t \in Tasks : task[t] \in {"none", "ok"}

=============================================================================
