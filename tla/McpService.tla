----------------------------- MODULE McpService -----------------------------
(***************************************************************************)
(* The Model Context Protocol endpoint of the router's HTTP API            *)
(* (src/data/vyos-1x-files/src/services/api/mcp) and its stdio twin        *)
(* (src/board/scripts/mcp-stdio-endpoint.py).                              *)
(*                                                                         *)
(* One API process serves many clients.  A server object is built from     *)
(* SessionState when the process (re)initialises and captures the access   *)
(* mode then; requests are answered on one event loop, but every handler   *)
(* that touches the router runs in a thread of a pool, and all of them     *)
(* stage edits in the ONE configuration session of the process, which the  *)
(* REST routes use too.  The stdio endpoint is a second process with a     *)
(* session and a lock of its own.                                          *)
(***************************************************************************)
EXTENDS Naturals, Sequences, FiniteSets

CONSTANTS
    Clients,        \* agents, and the writer behind the REST routes
    Rest,           \* the client that stands for the REST routes
    Keys,           \* API keys
    Leaves,         \* leaves of the router's configuration
    Secret, Public, \* the credential leaves, and the public-key leaves
    EditLists,      \* operations arguments a client may send
    MaxReloads,     \* bound: reloads of the API process
    NoKey, Nobody   \* model values

ASSUME McpAssumption ==
    /\ Rest \in Clients /\ Nobody \notin Clients /\ NoKey \notin Keys
    /\ Secret \subseteq Leaves /\ Public \subseteq Leaves /\ Secret \cap Public = {}
    /\ EditLists \subseteq Seq([op : {"set", "delete"}, leaf : Leaves])
    /\ MaxReloads \in Nat

VARIABLES
    conf,      \* SessionState: mcp, mode, introspection and API keys
    phase,     \* API process: "init", "startup", "up"
    mounts,    \* number of /mcp routes of the application
    manager,   \* _session_manager: the server it runs, or NoServer
    sess,      \* session id -> key it was opened with (live sessions of manager)
    stdio,     \* the server of the stdio process, or NoServer
    running,   \* the router's active configuration
    staged,    \* per endpoint, edits staged in its configuration session
    lock,      \* per endpoint, holder of rest.routers.lock
    call,      \* per client, the request it is waiting for
    reloads

vars == <<conf, phase, mounts, manager, sess, stdio, running, staged, lock, call, reloads>>
router == <<running, staged, lock>>
http == <<phase, mounts, manager, sess, reloads>>

Endpoints == {"http", "stdio"}
Values == {"absent", "set"}
Untouched == "untouched"
Clean == [l \in Leaves |-> Untouched]
\* without mcp nothing reads the mode: it is taken to be the default
Configs ==
    {cf \in [mcp : BOOLEAN, mode : {"read-only", "read-write"},
             introspection : BOOLEAN, keys : SUBSET Keys] :
       ~cf.mcp => cf.mode = "read-only" /\ ~cf.introspection}

\* tools.py: execute_operational_command with a read verb, the intercepted
\* `show configuration`, and a verb that changes state; the write tools
OpTools == {"show", "show configuration", "reset"}
\* (reboot_system stands for poweroff_system too)
WriteTools == {"modify_configuration", "manage_system_image", "reboot_system",
               "save_configuration"}
Resources == {"running", "effective", "schema", "operational"}
BuiltinPrompts == {"overview", "internet", "routing", "security", "firewall", "vpn"}
Prompts == BuiltinPrompts \cup {"custom"}
Requests == OpTools \cup WriteTools \cup Resources \cup {"prompt"}
NoServer == [readOnly |-> TRUE, introspection |-> FALSE, started |-> FALSE, exists |-> FALSE]
NoCall == [pc |-> "idle", ep |-> "http", name |-> "show", ops |-> <<>>, next |-> 1,
           server |-> NoServer, conf |-> "read-only", reply |-> {}, effect |-> "none"]

-----------------------------------------------------------------------------
(* What a server object exposes, fixed when it is created *)

\* create_mcp_server: the flags are read once from SessionState
create_mcp_server ==
    [readOnly |-> conf.mode # "read-write", introspection |-> conf.introspection,
     started |-> FALSE, exists |-> TRUE]

\* Hiding only by access mode (mutant)
VisiblePromptsByMode(srv) == {p \in Prompts : p = "vpn" => ~srv.readOnly}

\* register_prompts: prompts whose workflow the session could not follow are hidden
VisiblePrompts(srv) ==
    {p \in Prompts : p = "vpn" => ~srv.readOnly /\ srv.introspection}

\* Forgetting the verbs a read-only session may not run (mutant)
ExposedAnyVerb(srv) ==
    OpTools \cup (IF srv.readOnly THEN {} ELSE WriteTools) \cup {"prompt"}
      \cup (Resources \ IF srv.introspection THEN {} ELSE {"schema"})

\* call_tool and _handle_read_resource refuse what is not exposed; get_prompt
\* picks among the visible prompts
Exposed(srv) ==
    (OpTools \ IF srv.readOnly THEN {"reset"} ELSE {})
      \cup (IF srv.readOnly THEN {} ELSE WriteTools)
      \cup (Resources \ IF srv.introspection THEN {} ELSE {"schema"})
      \cup {"prompt"}

\* The requests a prompt's text tells the agent to make.  The overview lists
\* the tools, resources and prompts; the other builders switch on the same
\* flags; the provisioning template is fixed text.
PromptText(p, srv) ==
    LET writing == IF srv.readOnly THEN {} ELSE {"modify_configuration"}
        schema  == IF srv.introspection THEN {"schema"} ELSE {}
    IN  CASE p = "overview" ->
               {"show", "running", "effective", "operational"} \cup schema
                 \cup (IF srv.readOnly THEN {} ELSE WriteTools)
                 \cup {"internet", "security", "routing", "firewall"}
                 \cup (IF srv.readOnly \/ ~srv.introspection THEN {} ELSE {"vpn"})
          [] p \in {"routing", "firewall"} -> {"show", "running"} \cup schema
          [] p \in {"internet", "security"} -> {"show", "running"} \cup schema \cup writing
          [] p = "vpn" -> {"schema", "modify_configuration", "show"}
          [] p = "custom" -> {}

-----------------------------------------------------------------------------
(* Configuration trees *)

\* The session's view: staged edits over the active configuration
Working(edits) ==
    [l \in Leaves |-> IF edits[l] = Untouched THEN running[l] ELSE edits[l]]

\* One set or delete of the operations argument
Edit(edits, op) == [edits EXCEPT ![op.leaf] = IF op.op = "set" THEN "set" ELSE "absent"]

\* What the first n operations amount to: the last one on each leaf decides
EditsOf(ops, n) ==
    [l \in Leaves |->
       LET on == {i \in 1..n : ops[i].leaf = l}
           last == CHOOSE i \in on : \A j \in on : j <= i
       IN  IF on = {} THEN Untouched ELSE Edit(Clean, ops[last])[l]]

\* Leaves whose value a rendering of the tree shows in the clear
Shown(tree) == {l \in Leaves : tree[l] = "set"}

\* Returning what the failed pass produced (mutant)
StripMcpSecretsOpen(tree, fault, masked) ==
    IF fault THEN Shown(tree) \ masked ELSE Shown(tree) \ Secret

\* strip_mcp_secrets: mask the credentials one path after another and keep
\* public material; when the internals are missing or any step raises, after
\* the paths in `masked` were done, the full upstream strip masks both classes
StripMcpSecrets(tree, fault, masked) ==
    IF fault THEN (Shown(tree) \ masked) \ (Secret \cup Public)
             ELSE Shown(tree) \ Secret

-----------------------------------------------------------------------------
Init ==
    /\ conf \in Configs
    /\ phase = "init"
    /\ mounts = 0
    /\ manager = NoServer
    /\ sess = [c \in Clients |-> NoKey]
    /\ stdio = NoServer
    /\ running = [l \in Leaves |-> IF l \in Secret THEN "set" ELSE "absent"]
    /\ staged = [e \in Endpoints |-> Clean]
    /\ lock = [e \in Endpoints |-> Nobody]
    /\ call = [c \in Clients |-> NoCall]
    /\ reloads = 0

(* Life of the API process *)

\* A Mount keeps its path without the trailing slash
MountPath == "/mcp"

\* mcp_init whose early return recognises its own route (mutant)
mcp_initOnce ==
    IF mounts > 0 THEN UNCHANGED <<mounts, manager>>
                  ELSE mounts' = mounts + 1 /\ manager' = create_mcp_server

\* mcp_init: its early return looks for a route with path '/mcp/'
mcp_init ==
    IF mounts > 0 /\ MountPath = "/mcp/"
      THEN UNCHANGED <<mounts, manager>>
      ELSE /\ mounts' = mounts + 1
           /\ manager' = create_mcp_server

mcp_clear == mounts' = 0 /\ manager' = NoServer

\* initialization: add or clear the MCP route for the loaded configuration
Initialize ==
    /\ phase = "init"
    /\ phase' = "startup"
    /\ IF conf.mcp THEN mcp_init ELSE mcp_clear
    /\ UNCHANGED <<conf, sess, stdio, router, call, reloads>>

\* _start_session_manager and the task it creates, _run_session_manager
Startup ==
    /\ phase = "startup"
    /\ phase' = "up"
    /\ manager' = [manager EXCEPT !.started = manager.exists]
    /\ UNCHANGED <<conf, mounts, sess, stdio, router, call, reloads>>

\* A reload that only refreshes SessionState (mutant)
ReloadInPlace(new) ==
    /\ phase = "up"
    /\ reloads < MaxReloads
    /\ reloads' = reloads + 1
    /\ conf' = new
    /\ UNCHANGED <<phase, manager, sess, mounts, stdio, router, call>>

\* Reload of the API process: _stop_session_manager, and the new configuration
Reload(new) ==
    /\ phase = "up"
    /\ reloads < MaxReloads
    /\ reloads' = reloads + 1
    /\ phase' = "init"
    /\ manager' = NoServer
    /\ sess' = [c \in Clients |-> NoKey]
    /\ conf' = new
    /\ UNCHANGED <<mounts, stdio, router, call>>

\* main of the stdio endpoint: refuse unless MCP is configured
StartStdio ==
    /\ ~stdio.exists
    /\ conf.mcp
    /\ stdio' = [create_mcp_server EXCEPT !.started = TRUE]
    /\ staged' = [staged EXCEPT !["stdio"] = Clean]
    /\ UNCHANGED <<conf, http, running, lock, call>>

\* End of input: the process ends once its handlers have returned
StopStdio ==
    /\ stdio.exists
    /\ \A c \in Clients : call[c].pc # "idle" => call[c].ep # "stdio"
    /\ stdio' = NoServer
    /\ UNCHANGED <<conf, http, router, call>>

-----------------------------------------------------------------------------
(* Requests *)

\* _mcp_auth_check and handle_request of the first request of a client: the
\* API key is looked up, and the manager creates a session
OpenSession(c, k) ==
    /\ phase = "up"
    /\ mounts > 0
    /\ manager.started
    /\ sess[c] = NoKey
    /\ k \in conf.keys
    /\ sess' = [sess EXCEPT ![c] = k]
    /\ UNCHANGED <<conf, phase, mounts, manager, stdio, router, call, reloads>>

\* A request to a server; one it does not expose is refused with an error
Request(c, e, srv, name, ops) ==
    /\ call[c].pc = "idle"
    /\ name \in Exposed(srv)
    /\ call' = [call EXCEPT ![c] =
          [NoCall EXCEPT !.ep = e, !.name = name, !.ops = ops, !.server = srv,
                         !.conf = conf.mode, !.pc = "pool"]]
    /\ UNCHANGED <<conf, http, stdio, router>>

\* A request on a live session, trusted by its id alone
HttpRequest(c, name, ops) ==
    /\ c # Rest
    /\ phase = "up" /\ mounts > 0 /\ manager.started
    /\ sess[c] # NoKey
    /\ Request(c, "http", manager, name, ops)

StdioRequest(c, name, ops) ==
    /\ c # Rest
    /\ stdio.exists
    /\ Request(c, "stdio", stdio, name, ops)

\* A configure request of the REST routes, which share session and lock
RestRequest(ops) ==
    /\ phase = "up"
    /\ call[Rest].pc = "idle"
    /\ call' = [call EXCEPT ![Rest] =
          [NoCall EXCEPT !.name = "modify_configuration", !.ops = ops, !.pc = "pool"]]
    /\ UNCHANGED <<conf, http, stdio, router>>

\* get_prompt of a visible prompt
GetPrompt(c) ==
    /\ call[c].pc = "pool"
    /\ call[c].name = "prompt"
    /\ \E p \in VisiblePrompts(call[c].server) :
         call' = [call EXCEPT ![c].pc = "done", ![c].reply = PromptText(p, call[c].server)]
    /\ UNCHANGED <<conf, http, stdio, router>>

\* A handler that neither stages nor renders configuration: the output or the
\* effect of the command it runs
RunCommand(c) ==
    /\ call[c].pc = "pool"
    /\ call[c].name \notin {"modify_configuration", "show configuration", "running", "prompt"}
    /\ call' = [call EXCEPT ![c].pc = "done",
          ![c].effect = IF call[c].name \in WriteTools \cup {"reset"}
                          THEN call[c].name ELSE "none"]
    /\ UNCHANGED <<conf, http, stdio, router>>

\* `show configuration` and the running resource: the session's view, stripped
RenderConfig(c) ==
    /\ call[c].pc = "pool"
    /\ call[c].name \in {"show configuration", "running"}
    /\ \E fault \in BOOLEAN : \E masked \in SUBSET Secret :
         call' = [call EXCEPT ![c].pc = "done",
           ![c].reply = StripMcpSecrets(Working(staged[call[c].ep]), fault, masked)]
    /\ UNCHANGED <<conf, http, stdio, router>>

-----------------------------------------------------------------------------
(* modify_configuration *)

Modifying(c, at) == call[c].pc = at /\ call[c].name = "modify_configuration"

\* Without the lock (mutant)
AcquireNothing(c) ==
    /\ Modifying(c, "pool")
    /\ call' = [call EXCEPT ![c].pc = "staging"]
    /\ UNCHANGED <<conf, http, stdio, running, staged, lock>>

\* lock.acquire
Acquire(c) ==
    LET e == call[c].ep
    IN  /\ Modifying(c, "pool")
        /\ lock[e] = Nobody
        /\ lock' = [lock EXCEPT ![e] = c]
        /\ call' = [call EXCEPT ![c].pc = "staging"]
        /\ UNCHANGED <<conf, http, stdio, running, staged>>

\* session.set or session.delete of the next operation
StageEdit(c) ==
    LET e == call[c].ep
        i == call[c].next
    IN  /\ Modifying(c, "staging")
        /\ i <= Len(call[c].ops)
        /\ staged' = [staged EXCEPT ![e] = Edit(@, call[c].ops[i])]
        /\ call' = [call EXCEPT ![c].next = i + 1]
        /\ UNCHANGED <<conf, http, stdio, running, lock>>

\* The error path without its discard, and without its release (mutants)
ModifyFailsDirty(c) ==
    LET e == call[c].ep
    IN  /\ Modifying(c, "staging")
        /\ lock' = [lock EXCEPT ![e] = Nobody]
        /\ call' = [call EXCEPT ![c].pc = "done"]
        /\ UNCHANGED <<conf, http, stdio, running, staged>>
ModifyFailsHolding(c) ==
    LET e == call[c].ep
    IN  /\ Modifying(c, "staging")
        /\ staged' = [staged EXCEPT ![e] = Clean]
        /\ call' = [call EXCEPT ![c].pc = "done"]
        /\ UNCHANGED <<conf, http, stdio, running, lock>>

\* An invalid path, an unknown operation, or a ConfigSessionError of set,
\* delete or commit: the edits are discarded and the lock released
ModifyFails(c) ==
    LET e == call[c].ep
    IN  /\ Modifying(c, "staging")
        /\ staged' = [staged EXCEPT ![e] = Clean]
        /\ lock' = [lock EXCEPT ![e] = Nobody]
        /\ call' = [call EXCEPT ![c].pc = "done"]
        /\ UNCHANGED <<conf, http, stdio, running>>

\* A commit that writes the staged changes alone (mutant)
CommitChangesOnly(c) ==
    LET e == call[c].ep
    IN  /\ Modifying(c, "staging")
        /\ call[c].next > Len(call[c].ops)
        /\ running' = staged[e]
        /\ staged' = [staged EXCEPT ![e] = Clean]
        /\ lock' = [lock EXCEPT ![e] = Nobody]
        /\ call' = [call EXCEPT ![c].pc = "done", ![c].effect = "commit"]
        /\ UNCHANGED <<conf, http, stdio>>

\* session.commit or commit_confirm, and lock.release
Commit(c) ==
    LET e == call[c].ep
    IN  /\ Modifying(c, "staging")
        /\ call[c].next > Len(call[c].ops)
        /\ running' = Working(staged[e])
        /\ staged' = [staged EXCEPT ![e] = Clean]
        /\ lock' = [lock EXCEPT ![e] = Nobody]
        /\ call' = [call EXCEPT ![c].pc = "done", ![c].effect = "commit"]
        /\ UNCHANGED <<conf, http, stdio>>

\* The reply reaches the client
Reply(c) ==
    /\ call[c].pc = "done"
    /\ call' = [call EXCEPT ![c] = NoCall]
    /\ UNCHANGED <<conf, http, stdio, router>>

Thread(c) == GetPrompt(c) \/ RunCommand(c) \/ RenderConfig(c) \/ Acquire(c) \/ StageEdit(c)
               \/ ModifyFails(c) \/ Commit(c)

Next ==
    \/ Initialize \/ Startup \/ StartStdio \/ StopStdio
    \/ \E new \in Configs : Reload(new)
    \/ \E c \in Clients \ {Rest}, k \in Keys : OpenSession(c, k)
    \/ \E c \in Clients, name \in Requests : \E ops \in EditLists :
         /\ name # "modify_configuration" => ops = CHOOSE o \in EditLists : TRUE
         /\ HttpRequest(c, name, ops) \/ StdioRequest(c, name, ops)
    \/ \E ops \in EditLists : RestRequest(ops)
    \/ \E c \in Clients : Thread(c) \/ Reply(c)

\* A thread of the pool that can run does, and the process finishes starting
Spec == Init /\ [][Next]_vars /\ WF_vars(Initialize) /\ WF_vars(Startup)
          /\ \A c \in Clients : WF_vars(Thread(c))

-----------------------------------------------------------------------------
(* Properties *)

\* Every variable keeps its type; a staged edit list is never run past its end.
TypeOK ==
    /\ conf \in Configs
    /\ phase \in {"init", "startup", "up"}
    /\ mounts \in 0..(MaxReloads + 1)
    /\ reloads \in 0..MaxReloads
    /\ {manager, stdio} \subseteq
         [readOnly : BOOLEAN, introspection : BOOLEAN, started : BOOLEAN, exists : BOOLEAN]
    /\ sess \in [Clients -> Keys \cup {NoKey}]
    /\ running \in [Leaves -> Values]
    /\ staged \in [Endpoints -> [Leaves -> Values \cup {Untouched}]]
    /\ lock \in [Endpoints -> Clients \cup {Nobody}]
    /\ \A c \in Clients :
         /\ call[c].pc \in {"idle", "pool", "staging", "done"}
         /\ call[c].ep \in Endpoints
         /\ call[c].name \in Requests
         /\ call[c].next \in 1..(Len(call[c].ops) + 1)

\* While the API process is up, the endpoint is served exactly when MCP is
\* configured, by a running manager whose server has the configured access
\* mode: no sequence of reloads leaves a dead route or a stale mode behind
\* (mcp_init, mcp_clear and the startup and shutdown handlers together).
ServedIsConfigured ==
    phase = "up" =>
      /\ manager.exists = conf.mcp /\ manager.started = conf.mcp
      /\ (mounts > 0) = conf.mcp
      /\ conf.mcp => /\ manager.readOnly = (conf.mode # "read-write")
                     /\ manager.introspection = conf.introspection

\* A session id is trusted without its key (_mcp_auth_check); still, every
\* live session was opened with a key the current configuration accepts.
SessionsAuthenticated ==
    \A c \in Clients : sess[c] # NoKey => sess[c] \in conf.keys /\ conf.mcp

\* A request over HTTP that had an effect on the router was admitted while
\* the configured mode was read-write (call_tool's two checks on captured
\* flags), whatever reloads happened before or since.
ModeHonoured ==
    \A c \in Clients \ {Rest} :
      call[c].ep = "http" /\ call[c].effect # "none" => call[c].conf = "read-write"

\* The edits staged in a shared session are exactly those of the holder of
\* its lock so far: nothing of a failed or refused request stays behind for
\* the next one to commit (_modify_configuration).
StagedIsHolders ==
    \A e \in Endpoints :
      staged[e] = IF lock[e] = Nobody THEN Clean
                  ELSE EditsOf(call[lock[e]].ops, call[lock[e]].next - 1)

\* The answer built from the configuration shows no credential, even when the
\* selective pass fails half-way (strip_mcp_secrets fails closed).
RepliesMasked ==
    \A c \in Clients :
      call[c].pc = "done" /\ call[c].name \in {"show configuration", "running"}
        => call[c].reply \cap Secret = {}

\* A prompt never tells the agent to use a tool, resource or prompt that its
\* own session refuses (the text builders and register_prompts agree).
PromptsFollowable ==
    \A c \in Clients :
      call[c].pc = "done" /\ call[c].name = "prompt"
        => call[c].reply \subseteq
             Exposed(call[c].server) \cup VisiblePrompts(call[c].server)

\* "Stage set/delete operations and atomically commit them": a commit changes
\* the active configuration by the request's own operations, all of them and
\* nothing else.
CommitStep(c) == call[c].effect # "commit" /\ call'[c].effect = "commit"
CommitsWhole ==
    [][\A c \in Clients : CommitStep(c) =>
         running' = Working(EditsOf(call[c].ops, Len(call[c].ops)))]_vars

\* The lock of a configuration session is always given back
\* (the finally of _modify_configuration).
LockReleased == \A e \in Endpoints : lock[e] # Nobody ~> lock[e] = Nobody
=============================================================================
