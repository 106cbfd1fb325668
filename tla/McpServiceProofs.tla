-------------------------- MODULE McpServiceProofs --------------------------
(***************************************************************************)
(* Theorems about McpService, for any clients, keys, leaves, edit lists    *)
(* and number of reloads.                                                  *)
(***************************************************************************)
EXTENDS McpService, TLAPS

Servers == [readOnly : BOOLEAN, introspection : BOOLEAN, started : BOOLEAN, exists : BOOLEAN]

CallRecord ==
    [pc : {"idle", "pool", "staging", "done"}, ep : Endpoints, name : Requests,
     ops : EditLists \cup {<<>>}, next : Nat \ {0}, server : Servers,
     conf : {"read-only", "read-write"},
     reply : SUBSET (Leaves \cup Requests \cup Prompts),
     effect : {"none", "commit"} \cup Requests]

\* Types, with all fields of a request
TypeInv ==
    /\ conf \in Configs
    /\ phase \in {"init", "startup", "up"}
    /\ mounts \in Nat
    /\ reloads \in 0..MaxReloads
    /\ mounts <= IF phase = "init" THEN reloads ELSE reloads + 1
    /\ manager \in Servers
    /\ stdio \in Servers
    /\ sess \in [Clients -> Keys \cup {NoKey}]
    /\ running \in [Leaves -> Values]
    /\ staged \in [Endpoints -> [Leaves -> Values \cup {Untouched}]]
    /\ lock \in [Endpoints -> Clients \cup {Nobody}]
    /\ call \in [Clients -> CallRecord]
    /\ \A c \in Clients : call[c].next <= Len(call[c].ops) + 1

LEMMA OpsType ==
    ASSUME NEW ops \in EditLists \cup {<<>>}
    PROVE  ops \in Seq([op : {"set", "delete"}, leaf : Leaves])
  <1>1. CASE ops \in EditLists
    BY <1>1, McpAssumption
  <1>2. CASE ops = <<>>
    BY <1>2
  <1>3. QED
    BY <1>1, <1>2

LEMMA NoCallType == NoCall \in CallRecord
  BY DEF NoCall, CallRecord, NoServer, Servers, Endpoints, Requests, OpTools

LEMMA ServerType == TypeInv => create_mcp_server \in Servers /\ NoServer \in Servers
  BY DEF TypeInv, create_mcp_server, NoServer, Servers, Configs

\* What a visible prompt names, the session exposes or shows.
LEMMA PromptTextFollowable ==
    ASSUME NEW srv \in Servers, NEW p \in VisiblePrompts(srv)
    PROVE  PromptText(p, srv) \subseteq Exposed(srv) \cup VisiblePrompts(srv)
  <1>1. srv.readOnly \in BOOLEAN /\ srv.introspection \in BOOLEAN
    BY DEF Servers
  <1>2. CASE p = "overview"
    BY <1>1, <1>2 DEF PromptText, Exposed, VisiblePrompts, Prompts, BuiltinPrompts,
       OpTools, WriteTools, Resources
  <1>3. CASE p \in {"routing", "firewall", "internet", "security"}
    BY <1>1, <1>3 DEF PromptText, Exposed, OpTools, WriteTools, Resources
  <1>4. CASE p = "vpn"
    BY <1>1, <1>4 DEF PromptText, Exposed, VisiblePrompts, OpTools, WriteTools, Resources
  <1>5. CASE p = "custom"
    BY <1>5 DEF PromptText
  <1>6. QED
    BY <1>2, <1>3, <1>4, <1>5 DEF VisiblePrompts, Prompts, BuiltinPrompts

-----------------------------------------------------------------------------
(* Types *)

LEMMA TypeInit == Init => TypeInv
  <1> SUFFICES ASSUME Init PROVE TypeInv
    OBVIOUS
  <1>1. manager \in Servers /\ stdio \in Servers
    BY DEF Init, NoServer, Servers
  <1>2. call \in [Clients -> CallRecord]
    BY NoCallType DEF Init
  <1>3. \A c \in Clients : call[c].next <= Len(call[c].ops) + 1
    BY DEF Init, NoCall
  <1>4. staged \in [Endpoints -> [Leaves -> Values \cup {Untouched}]]
    BY DEF Init, Clean
  <1>5. running \in [Leaves -> Values] /\ lock \in [Endpoints -> Clients \cup {Nobody}]
    BY DEF Init, Values
  <1>6. sess \in [Clients -> Keys \cup {NoKey}]
    BY DEF Init
  <1>7. conf \in Configs /\ phase = "init" /\ mounts = 0 /\ reloads = 0
    BY DEF Init
  <1>8. QED
    BY <1>1, <1>2, <1>3, <1>4, <1>5, <1>6, <1>7, McpAssumption DEF TypeInv

\* What a step of the thread of one client may do to the requests: the
\* request keeps its endpoint, tool, operations, server and admission mode.
OwnStep(c) ==
    /\ call' \in [Clients -> CallRecord]
    /\ \A d \in Clients \ {c} : call'[d] = call[d]
    /\ call'[c].ep = call[c].ep
    /\ call'[c].name = call[c].name
    /\ call'[c].ops = call[c].ops
    /\ call'[c].server = call[c].server
    /\ call'[c].conf = call[c].conf

LEMMA GetPromptStep ==
    ASSUME TypeInv, NEW c \in Clients, GetPrompt(c)
    PROVE  /\ OwnStep(c)
           /\ call'[c].pc = "done"
           /\ call'[c].next = call[c].next
           /\ call'[c].effect = call[c].effect
           /\ call'[c].reply \subseteq Exposed(call[c].server) \cup VisiblePrompts(call[c].server)
  <1>1. PICK p \in VisiblePrompts(call[c].server) :
          call' = [call EXCEPT ![c].pc = "done", ![c].reply = PromptText(p, call[c].server)]
    BY DEF GetPrompt
  <1>2. call \in [Clients -> CallRecord] /\ call[c].server \in Servers
    BY DEF TypeInv, CallRecord
  <1>3. PromptText(p, call[c].server)
          \subseteq Exposed(call[c].server) \cup VisiblePrompts(call[c].server)
    BY <1>2, PromptTextFollowable
  <1>4. PromptText(p, call[c].server) \in SUBSET (Leaves \cup Requests \cup Prompts)
    BY <1>3 DEF Exposed, VisiblePrompts, Requests
  <1>5. QED
    BY <1>1, <1>2, <1>3, <1>4 DEF OwnStep, CallRecord

LEMMA RunCommandStep ==
    ASSUME TypeInv, NEW c \in Clients, RunCommand(c)
    PROVE  /\ OwnStep(c)
           /\ call'[c].pc = "done"
           /\ call'[c].next = call[c].next
           /\ call'[c].reply = call[c].reply
           /\ call'[c].effect = IF call[c].name \in WriteTools \cup {"reset"}
                                  THEN call[c].name ELSE "none"
  BY DEF RunCommand, TypeInv, OwnStep, CallRecord

LEMMA RenderConfigStep ==
    ASSUME TypeInv, NEW c \in Clients, RenderConfig(c)
    PROVE  /\ OwnStep(c)
           /\ call'[c].pc = "done"
           /\ call'[c].next = call[c].next
           /\ call'[c].effect = call[c].effect
           /\ call'[c].reply \cap Secret = {}
  <1>1. PICK fault \in BOOLEAN, masked \in SUBSET Secret :
          call' = [call EXCEPT ![c].pc = "done",
            ![c].reply = StripMcpSecrets(Working(staged[call[c].ep]), fault, masked)]
    BY DEF RenderConfig
  <1> DEFINE shown == StripMcpSecrets(Working(staged[call[c].ep]), fault, masked)
  <1>2. shown \subseteq Leaves /\ shown \cap Secret = {}
    BY DEF StripMcpSecrets, Shown
  <1>3. call \in [Clients -> CallRecord]
    BY DEF TypeInv
  <1> HIDE DEF shown
  <1>4. call' = [call EXCEPT ![c].pc = "done", ![c].reply = shown]
    BY <1>1 DEF shown
  <1>5. QED
    BY <1>2, <1>3, <1>4 DEF OwnStep, CallRecord

LEMMA AcquireStep ==
    ASSUME TypeInv, NEW c \in Clients, Acquire(c)
    PROVE  /\ OwnStep(c)
           /\ call'[c].pc = "staging"
           /\ call'[c].next = call[c].next
           /\ call'[c].reply = call[c].reply
           /\ call'[c].effect = call[c].effect
  BY DEF Acquire, TypeInv, OwnStep, CallRecord

LEMMA StageEditStep ==
    ASSUME TypeInv, NEW c \in Clients, StageEdit(c)
    PROVE  /\ OwnStep(c)
           /\ call'[c].pc = call[c].pc
           /\ call'[c].next = call[c].next + 1
           /\ call'[c].reply = call[c].reply
           /\ call'[c].effect = call[c].effect
  <1>1. call \in [Clients -> CallRecord] /\ call[c].next + 1 \in Nat \ {0}
    BY DEF TypeInv, CallRecord
  <1>2. call' = [call EXCEPT ![c].next = call[c].next + 1]
    BY DEF StageEdit
  <1>3. QED
    BY <1>1, <1>2 DEF OwnStep, CallRecord

LEMMA ModifyFailsStep ==
    ASSUME TypeInv, NEW c \in Clients, ModifyFails(c)
    PROVE  /\ OwnStep(c)
           /\ call'[c].pc = "done"
           /\ call'[c].next = call[c].next
           /\ call'[c].reply = call[c].reply
           /\ call'[c].effect = call[c].effect
  BY DEF ModifyFails, TypeInv, OwnStep, CallRecord

LEMMA CommitStepEffect ==
    ASSUME TypeInv, NEW c \in Clients, Commit(c)
    PROVE  /\ OwnStep(c)
           /\ call'[c].pc = "done"
           /\ call'[c].next = call[c].next
           /\ call'[c].reply = call[c].reply
           /\ call'[c].effect = "commit"
  BY DEF Commit, TypeInv, OwnStep, CallRecord

LEMMA ReplyStep ==
    ASSUME TypeInv, NEW c \in Clients, Reply(c)
    PROVE  /\ call' \in [Clients -> CallRecord]
           /\ \A d \in Clients \ {c} : call'[d] = call[d]
           /\ call'[c] = NoCall
  BY NoCallType DEF Reply, TypeInv

LEMMA RequestStep ==
    ASSUME TypeInv, NEW c \in Clients, NEW e \in Endpoints, NEW srv \in Servers,
           NEW name \in Requests, NEW ops \in EditLists, Request(c, e, srv, name, ops)
    PROVE  /\ call' \in [Clients -> CallRecord]
           /\ \A d \in Clients \ {c} : call'[d] = call[d]
           /\ call[c].pc = "idle" /\ call'[c].pc = "pool"
           /\ call'[c].ep = e /\ call'[c].name = name /\ call'[c].ops = ops
           /\ call'[c].next = 1 /\ call'[c].effect = "none" /\ call'[c].conf = conf.mode
  <1> DEFINE r == [NoCall EXCEPT !.ep = e, !.name = name, !.ops = ops, !.server = srv,
                                 !.conf = conf.mode, !.pc = "pool"]
  <1>1. call' = [call EXCEPT ![c] = r] /\ call[c].pc = "idle"
    BY DEF Request
  <1>2. call \in [Clients -> CallRecord] /\ conf.mode \in {"read-only", "read-write"}
    BY DEF TypeInv, Configs
  <1>3. /\ r.pc = "pool" /\ r.ep = e /\ r.name = name /\ r.ops = ops /\ r.next = 1
        /\ r.effect = "none" /\ r.conf = conf.mode
    BY DEF NoCall
  <1>4. r \in CallRecord
    BY <1>2, NoCallType DEF CallRecord
  <1> HIDE DEF r
  <1>5. QED
    BY <1>1, <1>2, <1>3, <1>4

LEMMA RestRequestStep ==
    ASSUME TypeInv, NEW ops \in EditLists, RestRequest(ops)
    PROVE  /\ call' \in [Clients -> CallRecord]
           /\ \A d \in Clients \ {Rest} : call'[d] = call[d]
           /\ call[Rest].pc = "idle" /\ call'[Rest].pc = "pool"
           /\ call'[Rest].ep = "http" /\ call'[Rest].name = "modify_configuration"
           /\ call'[Rest].ops = ops /\ call'[Rest].next = 1 /\ call'[Rest].effect = "none"
  <1> DEFINE r == [NoCall EXCEPT !.name = "modify_configuration", !.ops = ops, !.pc = "pool"]
  <1>1. call' = [call EXCEPT ![Rest] = r] /\ call[Rest].pc = "idle"
    BY DEF RestRequest
  <1>2. call \in [Clients -> CallRecord] /\ "modify_configuration" \in Requests
    BY DEF TypeInv, Requests, WriteTools
  <1>3. /\ r.pc = "pool" /\ r.ep = "http" /\ r.name = "modify_configuration"
        /\ r.ops = ops /\ r.next = 1 /\ r.effect = "none"
    BY DEF NoCall
  <1>4. r \in CallRecord
    BY <1>2, NoCallType DEF CallRecord
  <1> HIDE DEF r
  <1>5. QED
    BY <1>1, <1>2, <1>3, <1>4, McpAssumption

\* The part of the types a step of the API process or of stdio can disturb.
LEMMA ProcessTypes ==
    ASSUME TypeInv,
           \/ Initialize \/ Startup \/ StartStdio \/ StopStdio
           \/ \E new \in Configs : Reload(new)
           \/ \E c \in Clients \ {Rest}, k \in Keys : OpenSession(c, k)
    PROVE  TypeInv'
  <1> USE DEF TypeInv
  <1>1. CASE Initialize
    <2>1. manager' \in Servers /\ mounts' \in {0, mounts, mounts + 1}
      BY <1>1, ServerType DEF Initialize, mcp_init, mcp_clear, MountPath
    <2>2. QED
      BY <1>1, <2>1 DEF Initialize, router
  <1>2. CASE Startup
    <2>1. manager' \in Servers
      BY <1>2 DEF Startup, Servers
    <2>2. QED
      BY <1>2, <2>1 DEF Startup, router
  <1>3. CASE StartStdio
    <2>1. stdio' \in Servers
      BY <1>3, ServerType DEF StartStdio, Servers
    <2>2. staged' \in [Endpoints -> [Leaves -> Values \cup {Untouched}]]
      BY <1>3 DEF StartStdio, Clean
    <2>3. QED
      BY <1>3, <2>1, <2>2 DEF StartStdio, http
  <1>4. CASE StopStdio
    BY <1>4, ServerType DEF StopStdio, http, router
  <1>5. ASSUME NEW new \in Configs, Reload(new)
        PROVE  TypeInv'
    <2>1. reloads' \in 0..MaxReloads /\ mounts' <= reloads' /\ phase' = "init"
      BY <1>5, McpAssumption DEF Reload
    <2>2. sess' \in [Clients -> Keys \cup {NoKey}] /\ manager' \in Servers
      BY <1>5, ServerType DEF Reload
    <2>3. QED
      BY <1>5, <2>1, <2>2 DEF Reload, router
  <1>6. ASSUME NEW c \in Clients \ {Rest}, NEW k \in Keys, OpenSession(c, k)
        PROVE  TypeInv'
    BY <1>6 DEF OpenSession, router
  <1>7. QED
    BY <1>1, <1>2, <1>3, <1>4, <1>5, <1>6

LEMMA EditType ==
    ASSUME NEW edits \in [Leaves -> Values \cup {Untouched}],
           NEW op \in [op : {"set", "delete"}, leaf : Leaves]
    PROVE  Edit(edits, op) \in [Leaves -> Values \cup {Untouched}]
  BY DEF Edit, Values

LEMMA WorkingType ==
    ASSUME TypeInv, NEW edits \in [Leaves -> Values \cup {Untouched}]
    PROVE  Working(edits) \in [Leaves -> Values]
  BY DEF TypeInv, Working, Values, Untouched

\* The operation a call stages next is one of its list.
LEMMA NextOp ==
    ASSUME TypeInv, NEW c \in Clients, call[c].next <= Len(call[c].ops)
    PROVE  /\ call[c].next \in 1..Len(call[c].ops)
           /\ call[c].ops[call[c].next] \in [op : {"set", "delete"}, leaf : Leaves]
  <1> DEFINE Op == [op : {"set", "delete"}, leaf : Leaves]
  <1>1. call[c].ops \in EditLists \cup {<<>>} /\ call[c].next \in Nat \ {0}
    BY DEF TypeInv, CallRecord
  <1>2. call[c].ops \in Seq(Op)
    BY <1>1, OpsType
  <1> HIDE DEF Op
  <1>3. Len(call[c].ops) \in Nat
    BY <1>2
  <1>4. call[c].next \in 1..Len(call[c].ops)
    BY <1>1, <1>3
  <1>5. call[c].ops[call[c].next] \in Op
    BY <1>2, <1>4
  <1>6. QED
    BY <1>4, <1>5 DEF Op

LEMMA ThreadTypes ==
    ASSUME TypeInv, NEW c \in Clients, Thread(c)
    PROVE  TypeInv'
  <1> USE DEF TypeInv
  <1>a. call[c] \in CallRecord /\ call[c].ep \in Endpoints
    BY DEF CallRecord
  <1>b. Clean \in [Leaves -> Values \cup {Untouched}]
    BY DEF Clean
  <1>1. CASE GetPrompt(c)
    BY <1>1, GetPromptStep DEF GetPrompt, OwnStep, http, router
  <1>2. CASE RunCommand(c)
    BY <1>2, RunCommandStep DEF RunCommand, OwnStep, http, router
  <1>3. CASE RenderConfig(c)
    BY <1>3, RenderConfigStep DEF RenderConfig, OwnStep, http, router
  <1>4. CASE Acquire(c)
    BY <1>4, <1>a, AcquireStep DEF Acquire, OwnStep, http
  <1>5. CASE StageEdit(c)
    <2>1. call[c].next <= Len(call[c].ops)
      BY <1>5 DEF StageEdit
    <2>2. staged' \in [Endpoints -> [Leaves -> Values \cup {Untouched}]]
      BY <1>5, <1>a, <2>1, NextOp, EditType DEF StageEdit
    <2>3. \A d \in Clients : call'[d].next <= Len(call'[d].ops) + 1
      <3>1. call'[c].next <= Len(call'[c].ops) + 1
        BY <1>5, <2>1, <1>a, StageEditStep, OpsType DEF OwnStep, CallRecord
      <3>2. QED
        BY <3>1, <1>5, StageEditStep DEF OwnStep
    <2>4. QED
      BY <1>5, <2>2, <2>3, StageEditStep DEF StageEdit, OwnStep, http
  <1>6. CASE ModifyFails(c)
    BY <1>6, <1>a, <1>b, ModifyFailsStep DEF ModifyFails, OwnStep, http
  <1>7. CASE Commit(c)
    <2>1. running' \in [Leaves -> Values]
      BY <1>7, <1>a, WorkingType DEF Commit
    <2>2. QED
      BY <1>7, <2>1, <1>a, <1>b, CommitStepEffect DEF Commit, OwnStep, http
  <1>8. QED
    BY <1>1, <1>2, <1>3, <1>4, <1>5, <1>6, <1>7 DEF Thread

LEMMA RequestTypes ==
    ASSUME TypeInv,
           \/ \E c \in Clients, e \in Endpoints, srv \in Servers, name \in Requests :
                \E ops \in EditLists : Request(c, e, srv, name, ops)
           \/ \E ops \in EditLists : RestRequest(ops)
           \/ \E c \in Clients : Reply(c)
    PROVE  TypeInv'
  <1> USE DEF TypeInv
  <1>1. ASSUME NEW c \in Clients, NEW e \in Endpoints, NEW srv \in Servers,
               NEW name \in Requests, NEW ops \in EditLists, Request(c, e, srv, name, ops)
        PROVE  TypeInv'
    <2>1. call'[c].next = 1 /\ call'[c].ops = ops
      BY <1>1, RequestStep
    <2>2. call'[c].next <= Len(call'[c].ops) + 1
      BY <2>1, OpsType
    <2>3. QED
      BY <1>1, <2>2, RequestStep DEF Request, http, router
  <1>2. ASSUME NEW ops \in EditLists, RestRequest(ops)
        PROVE  TypeInv'
    <2>1. call'[Rest].next = 1 /\ call'[Rest].ops = ops
      BY <1>2, RestRequestStep
    <2>2. call'[Rest].next <= Len(call'[Rest].ops) + 1
      BY <2>1, OpsType
    <2>3. QED
      BY <1>2, <2>2, RestRequestStep, McpAssumption DEF RestRequest, http, router
  <1>3. ASSUME NEW c \in Clients, Reply(c)
        PROVE  TypeInv'
    <2>1. call'[c].next = 1 /\ call'[c].ops = <<>>
      BY <1>3, ReplyStep DEF NoCall
    <2>2. call'[c].next <= Len(call'[c].ops) + 1
      BY <2>1
    <2>3. QED
      BY <1>3, <2>2, ReplyStep DEF Reply, http, router
  <1>4. QED
    BY <1>1, <1>2, <1>3

\* Every step of Next, by the kind of actor.
LEMMA NextCases ==
    ASSUME TypeInv, Next
    PROVE  \/ Initialize \/ Startup \/ StartStdio \/ StopStdio
           \/ \E new \in Configs : Reload(new)
           \/ \E c \in Clients \ {Rest}, k \in Keys : OpenSession(c, k)
           \/ \E c \in Clients \ {Rest}, name \in Requests : \E ops \in EditLists :
                HttpRequest(c, name, ops) \/ StdioRequest(c, name, ops)
           \/ \E ops \in EditLists : RestRequest(ops)
           \/ \E c \in Clients : Thread(c)
           \/ \E c \in Clients : Reply(c)
  BY Zenon DEF Next, HttpRequest, StdioRequest

LEMMA TypeStep == TypeInv /\ [Next]_vars => TypeInv'
  <1> SUFFICES ASSUME TypeInv, [Next]_vars PROVE TypeInv'
    OBVIOUS
  <1>1. CASE UNCHANGED vars
    BY <1>1 DEF TypeInv, vars
  <1>2. CASE Next
    <2>1. ASSUME NEW c \in Clients, NEW name \in Requests, NEW ops \in EditLists,
                 HttpRequest(c, name, ops) \/ StdioRequest(c, name, ops)
          PROVE  TypeInv'
      <3>1. \E e \in Endpoints, srv \in Servers : Request(c, e, srv, name, ops)
        BY <2>1 DEF HttpRequest, StdioRequest, TypeInv, Endpoints
      <3>2. QED
        BY <3>1, RequestTypes
    <2>2. QED
      BY <1>2, <2>1, NextCases, ProcessTypes, ThreadTypes, RequestTypes
  <1>3. QED
    BY <1>1, <1>2

\* No client, reload or failed edit drives the service out of its types; in
\* particular an edit list is never run past its end.
THEOREM TypeCorrect == Spec => []TypeOK
  <1>1. TypeInv => TypeOK
    <2> SUFFICES ASSUME TypeInv PROVE TypeOK
      OBVIOUS
    <2>1. mounts \in 0..(MaxReloads + 1)
      BY McpAssumption DEF TypeInv
    <2>2. ASSUME NEW c \in Clients
          PROVE  /\ call[c].pc \in {"idle", "pool", "staging", "done"}
                 /\ call[c].ep \in Endpoints
                 /\ call[c].name \in Requests
                 /\ call[c].next \in 1..(Len(call[c].ops) + 1)
      <3>1. call[c] \in CallRecord /\ call[c].next <= Len(call[c].ops) + 1
        BY DEF TypeInv
      <3>2. Len(call[c].ops) \in Nat
        BY <3>1, OpsType DEF CallRecord
      <3>3. QED
        BY <3>1, <3>2 DEF CallRecord
    <2>3. QED
      BY <2>1, <2>2 DEF TypeInv, TypeOK, Servers
  <1>2. QED
    BY <1>1, TypeInit, TypeStep, PTL DEF Spec

-----------------------------------------------------------------------------
(* The HTTP endpoint across reloads *)

\* A server object made from the current configuration
ServerOfConf ==
    /\ manager.exists = conf.mcp
    /\ (mounts > 0) = conf.mcp
    /\ conf.mcp => /\ manager.readOnly = (conf.mode # "read-write")
                   /\ manager.introspection = conf.introspection

\* ServedIsConfigured says nothing while the process starts
HttpInv ==
    /\ phase # "up" => \A c \in Clients : sess[c] = NoKey
    /\ phase = "startup" => ServerOfConf /\ ~manager.started
    /\ ServedIsConfigured
    /\ SessionsAuthenticated

LEMMA HttpInit == Init => HttpInv
  BY DEF Init, HttpInv, ServedIsConfigured, SessionsAuthenticated

LEMMA ThreadKeepsHttp ==
    ASSUME NEW c \in Clients, Thread(c) \/ Reply(c)
    PROVE  UNCHANGED <<conf, http, stdio>>
  BY DEF Thread, GetPrompt, RunCommand, RenderConfig, Acquire, StageEdit, ModifyFails, Commit,
         Reply, http

LEMMA RequestKeepsHttp ==
    ASSUME NEW c \in Clients, NEW name, NEW ops,
           HttpRequest(c, name, ops) \/ StdioRequest(c, name, ops) \/ RestRequest(ops)
    PROVE  UNCHANGED <<conf, http, stdio, router>>
  BY DEF HttpRequest, StdioRequest, RestRequest, Request, http

LEMMA HttpStep == TypeInv /\ HttpInv /\ [Next]_vars => HttpInv'
  <1> SUFFICES ASSUME TypeInv, HttpInv, [Next]_vars PROVE HttpInv'
    OBVIOUS
  <1>a. /\ conf.mcp \in BOOLEAN /\ conf.introspection \in BOOLEAN /\ mounts \in Nat
        /\ manager \in Servers
    BY DEF TypeInv, Configs
  <1>b. ASSUME UNCHANGED <<conf, http>> PROVE HttpInv'
    BY <1>b DEF HttpInv, ServerOfConf, ServedIsConfigured, SessionsAuthenticated, http
  <1>1. CASE Initialize
    <2>1. /\ phase = "init" /\ phase' = "startup" /\ UNCHANGED <<conf, sess>>
          /\ \A c \in Clients : sess[c] = NoKey
      BY <1>1 DEF Initialize, HttpInv
    <2>2. ServerOfConf' /\ ~manager'.started
      <3>1. CASE conf.mcp
        <4>1. mounts' = mounts + 1 /\ manager' = create_mcp_server
          BY <1>1, <3>1 DEF Initialize, mcp_init, MountPath
        <4>2. mounts' > 0
          BY <1>a, <4>1
        <4>3. /\ manager'.exists /\ ~manager'.started
              /\ manager'.readOnly = (conf'.mode # "read-write")
              /\ manager'.introspection = conf'.introspection
          BY <2>1, <4>1 DEF create_mcp_server
        <4>4. manager'.exists = TRUE /\ (mounts' > 0) = TRUE /\ conf'.mcp = TRUE
          BY <1>a, <2>1, <3>1, <4>1, <4>2 DEF create_mcp_server
        <4>5. QED
          BY <4>3, <4>4 DEF ServerOfConf
      <3>2. CASE ~conf.mcp
        <4>1. mounts' = 0 /\ manager' = NoServer
          BY <1>1, <3>2 DEF Initialize, mcp_clear
        <4>2. manager'.exists = FALSE /\ (mounts' > 0) = FALSE /\ conf'.mcp = FALSE
          BY <1>a, <2>1, <3>2, <4>1 DEF NoServer
        <4>3. QED
          BY <4>1, <4>2 DEF ServerOfConf, NoServer
      <3>3. QED
        BY <3>1, <3>2
    <2>3. QED
      BY <2>1, <2>2 DEF HttpInv, ServedIsConfigured, SessionsAuthenticated
  <1>2. CASE Startup
    <2>1. /\ phase = "startup" /\ phase' = "up" /\ UNCHANGED <<conf, sess, mounts>>
          /\ manager' = [manager EXCEPT !.started = manager.exists]
          /\ ServerOfConf /\ \A c \in Clients : sess[c] = NoKey
      BY <1>2 DEF Startup, HttpInv
    <2>2. ServedIsConfigured'
      BY <1>a, <2>1 DEF ServedIsConfigured, ServerOfConf, Servers
    <2>3. QED
      BY <2>1, <2>2 DEF HttpInv, SessionsAuthenticated
  <1>3. CASE StartStdio \/ StopStdio
    BY <1>3, <1>b DEF StartStdio, StopStdio
  <1>4. ASSUME NEW new \in Configs, Reload(new)
        PROVE  HttpInv'
    BY <1>4 DEF Reload, HttpInv, ServedIsConfigured, SessionsAuthenticated
  <1>5. ASSUME NEW c \in Clients \ {Rest}, NEW k \in Keys, OpenSession(c, k)
        PROVE  HttpInv'
    <2>1. /\ phase = "up" /\ manager.started /\ k \in conf.keys
          /\ sess' = [sess EXCEPT ![c] = k] /\ UNCHANGED <<conf, phase, mounts, manager>>
      BY <1>5 DEF OpenSession
    <2>2. conf.mcp
      BY <1>a, <2>1 DEF HttpInv, ServedIsConfigured
    <2>3. SessionsAuthenticated'
      BY <2>1, <2>2 DEF HttpInv, SessionsAuthenticated, TypeInv
    <2>4. QED
      BY <2>1, <2>3 DEF HttpInv, ServedIsConfigured
  <1>6. ASSUME NEW c \in Clients, NEW name, NEW ops,
               HttpRequest(c, name, ops) \/ StdioRequest(c, name, ops) \/ RestRequest(ops)
        PROVE  HttpInv'
    BY <1>6, <1>b, RequestKeepsHttp
  <1>7. ASSUME NEW c \in Clients, Thread(c) \/ Reply(c)
        PROVE  HttpInv'
    BY <1>7, <1>b, ThreadKeepsHttp
  <1>8. CASE UNCHANGED vars
    BY <1>8, <1>b DEF vars, http
  <1>9. QED
    BY <1>1, <1>2, <1>3, <1>4, <1>5, <1>6, <1>7, <1>8, NextCases, McpAssumption

\* No sequence of starts and reloads, with or without MCP, leaves a route
\* without a running server or a server with another access mode than the
\* configured one (mcp_init, mcp_clear, startup and shutdown handlers).
THEOREM ServedAsConfigured == Spec => []ServedIsConfigured
  <1>1. HttpInv => ServedIsConfigured
    BY DEF HttpInv
  <1>2. QED
    BY <1>1, TypeInit, TypeStep, HttpInit, HttpStep, PTL DEF Spec

\* A live session was opened with a key that is still configured, although
\* later requests show only the session id (_mcp_auth_check): a reload that
\* withdraws the key ends the session.
THEOREM SessionsStayAuthenticated == Spec => []SessionsAuthenticated
  <1>1. HttpInv => SessionsAuthenticated
    BY DEF HttpInv
  <1>2. QED
    BY <1>1, TypeInit, TypeStep, HttpInit, HttpStep, PTL DEF Spec

-----------------------------------------------------------------------------
(* Requests: access mode, masking, prompts *)

Effects == WriteTools \cup {"reset"}

\* One request.  Its effect comes from its tool, which a read-only server
\* does not expose; a request to stdio is in progress only while stdio lives.
CallOK(c) ==
    /\ c # Rest /\ call[c].ep = "http" /\ call[c].name \in Effects
         => call[c].conf = "read-write"
    /\ call[c].effect # "none" => call[c].name \in Effects
    /\ call[c].pc # "idle" /\ call[c].ep = "stdio" => stdio.exists
    /\ call[c].pc = "pool" => call[c].next = 1
    /\ call[c].pc = "staging" => call[c].name = "modify_configuration"
    /\ call[c].pc = "done" /\ call[c].name \in {"show configuration", "running"}
         => call[c].reply \cap Secret = {}
    /\ call[c].pc = "done" /\ call[c].name = "prompt"
         => call[c].reply \subseteq Exposed(call[c].server) \cup VisiblePrompts(call[c].server)

CallInv == \A c \in Clients : CallOK(c)

LEMMA NoCallOK ==
    ASSUME NEW c \in Clients, call[c] = NoCall
    PROVE  CallOK(c)
  BY DEF CallOK, NoCall, Effects, WriteTools

LEMMA CallInit == Init => CallInv
  BY NoCallOK DEF Init, CallInv

\* What a server exposes to a read-only session has no effect
LEMMA ReadOnlyExposed ==
    ASSUME NEW srv, srv.readOnly, NEW name \in Exposed(srv)
    PROVE  name \notin Effects
  BY DEF Exposed, Effects, OpTools, WriteTools, Resources

LEMMA ThreadCall ==
    ASSUME TypeInv, CallInv, NEW c \in Clients, Thread(c)
    PROVE  CallOK(c)'
  <1>a. CallOK(c) /\ stdio' = stdio
    BY ThreadKeepsHttp DEF CallInv
  <1>1. CASE GetPrompt(c)
    BY <1>a, <1>1, GetPromptStep DEF GetPrompt, OwnStep, CallOK
  <1>2. CASE RunCommand(c)
    BY <1>a, <1>2, RunCommandStep DEF RunCommand, OwnStep, CallOK, Effects
  <1>3. CASE RenderConfig(c)
    BY <1>a, <1>3, RenderConfigStep DEF RenderConfig, OwnStep, CallOK
  <1>4. CASE Acquire(c)
    BY <1>a, <1>4, AcquireStep DEF Acquire, Modifying, OwnStep, CallOK
  <1>5. CASE StageEdit(c)
    BY <1>a, <1>5, StageEditStep DEF StageEdit, Modifying, OwnStep, CallOK
  <1>6. CASE ModifyFails(c)
    BY <1>a, <1>6, ModifyFailsStep DEF ModifyFails, Modifying, OwnStep, CallOK
  <1>7. CASE Commit(c)
    BY <1>a, <1>7, CommitStepEffect DEF Commit, Modifying, OwnStep, CallOK, Effects, WriteTools
  <1>8. QED
    BY <1>1, <1>2, <1>3, <1>4, <1>5, <1>6, <1>7 DEF Thread

LEMMA ThreadOthers ==
    ASSUME TypeInv, NEW c \in Clients, Thread(c)
    PROVE  OwnStep(c)
  BY GetPromptStep, RunCommandStep, RenderConfigStep, AcquireStep, StageEditStep,
     ModifyFailsStep, CommitStepEffect DEF Thread

\* The other clients' requests do not notice a step that leaves stdio alone.
LEMMA OthersOK ==
    ASSUME CallInv, NEW c \in Clients, stdio' = stdio,
           \A d \in Clients \ {c} : call'[d] = call[d], CallOK(c)'
    PROVE  CallInv'
  BY DEF CallInv, CallOK

LEMMA CallStep == TypeInv /\ HttpInv /\ CallInv /\ [Next]_vars => CallInv'
  <1> SUFFICES ASSUME TypeInv, HttpInv, CallInv, [Next]_vars PROVE CallInv'
    OBVIOUS
  <1>a. ASSUME UNCHANGED <<call, stdio>> PROVE CallInv'
    BY <1>a DEF CallInv, CallOK
  <1>1. CASE Initialize \/ Startup
    BY <1>1, <1>a DEF Initialize, Startup
  <1>2. CASE StartStdio
    <2>1. call' = call /\ stdio'.exists
      BY <1>2 DEF StartStdio, create_mcp_server
    <2>2. QED
      BY <2>1 DEF CallInv, CallOK
  <1>3. CASE StopStdio
    BY <1>3 DEF StopStdio, CallInv, CallOK
  <1>4. ASSUME NEW new \in Configs, Reload(new)
        PROVE  CallInv'
    BY <1>4, <1>a DEF Reload
  <1>5. ASSUME NEW c \in Clients \ {Rest}, NEW k \in Keys, OpenSession(c, k)
        PROVE  CallInv'
    BY <1>5, <1>a DEF OpenSession
  <1>6. ASSUME NEW c \in Clients \ {Rest}, NEW name \in Requests, NEW ops \in EditLists,
               HttpRequest(c, name, ops)
        PROVE  CallInv'
    <2>1. Request(c, "http", manager, name, ops) /\ manager \in Servers
      BY <1>6 DEF HttpRequest, TypeInv
    <2>2. /\ call'[c].pc = "pool" /\ call'[c].ep = "http" /\ call'[c].name = name
          /\ call'[c].next = 1 /\ call'[c].effect = "none" /\ call'[c].conf = conf.mode
          /\ \A d \in Clients \ {c} : call'[d] = call[d]
      BY <2>1, RequestStep DEF Endpoints
    <2>3. phase = "up" /\ manager.started /\ name \in Exposed(manager)
      BY <1>6 DEF HttpRequest, Request
    <2>4. conf.mcp /\ manager.readOnly = (conf.mode # "read-write")
      BY <2>3 DEF HttpInv, ServedIsConfigured, TypeInv, Configs, Servers
    <2>5. name \in Effects => conf.mode = "read-write"
      BY <2>3, <2>4, ReadOnlyExposed
    <2>6. CallOK(c)'
      BY <2>2, <2>5 DEF CallOK
    <2>7. QED
      BY <1>6, <2>2, <2>6, OthersOK, RequestKeepsHttp
  <1>7. ASSUME NEW c \in Clients \ {Rest}, NEW name \in Requests, NEW ops \in EditLists,
               StdioRequest(c, name, ops)
        PROVE  CallInv'
    <2>1. Request(c, "stdio", stdio, name, ops) /\ stdio \in Servers /\ stdio.exists
      BY <1>7 DEF StdioRequest, TypeInv
    <2>2. /\ call'[c].pc = "pool" /\ call'[c].ep = "stdio" /\ call'[c].name = name
          /\ call'[c].next = 1 /\ call'[c].effect = "none"
          /\ \A d \in Clients \ {c} : call'[d] = call[d]
      BY <2>1, RequestStep DEF Endpoints
    <2>3. stdio' = stdio
      BY <1>7, RequestKeepsHttp
    <2>4. CallOK(c)'
      BY <2>1, <2>2, <2>3 DEF CallOK
    <2>5. QED
      BY <2>2, <2>3, <2>4, OthersOK
  <1>8. ASSUME NEW ops \in EditLists, RestRequest(ops)
        PROVE  CallInv'
    <2>1. stdio' = stdio
      BY <1>8 DEF RestRequest
    <2>2. CallOK(Rest)'
      BY <1>8, <2>1, RestRequestStep DEF CallOK
    <2>3. QED
      BY <1>8, <2>1, <2>2, RestRequestStep, OthersOK, McpAssumption
  <1>9. ASSUME NEW c \in Clients, Thread(c)
        PROVE  CallInv'
    BY <1>9, ThreadCall, ThreadOthers, ThreadKeepsHttp, OthersOK DEF OwnStep
  <1>10. ASSUME NEW c \in Clients, Reply(c)
         PROVE  CallInv'
    <2>a. call'[c] = NoCall
      BY <1>10, ReplyStep
    <2>1. CallOK(c)'
      BY <2>a DEF CallOK, NoCall, Effects, WriteTools
    <2>2. QED
      BY <1>10, <2>1, ReplyStep, ThreadKeepsHttp, OthersOK
  <1>11. CASE UNCHANGED vars
    BY <1>11, <1>a DEF vars
  <1>12. QED
    BY <1>1, <1>2, <1>3, <1>4, <1>5, <1>6, <1>7, <1>8, <1>9, <1>10, <1>11, NextCases

\* What a request over HTTP did to the router it did under a read-write
\* configuration, although the mode is captured when the server is built and
\* reloads come and go while requests are in progress (call_tool).
THEOREM ModeIsHonoured == Spec => []ModeHonoured
  <1>1. CallInv => ModeHonoured
    BY DEF CallInv, CallOK, ModeHonoured
  <1>2. QED
    BY <1>1, TypeInit, TypeStep, HttpInit, HttpStep, CallInit, CallStep, PTL DEF Spec

\* No answer built from the configuration shows a credential, wherever the
\* selective pass of strip_mcp_secrets failed.
THEOREM RepliesAreMasked == Spec => []RepliesMasked
  <1>1. CallInv => RepliesMasked
    BY DEF CallInv, CallOK, RepliesMasked
  <1>2. QED
    BY <1>1, TypeInit, TypeStep, HttpInit, HttpStep, CallInit, CallStep, PTL DEF Spec

\* The text of a prompt names only what the session that fetched it accepts
\* (register_prompts and the builders of prompts.py).
THEOREM PromptsAreFollowable == Spec => []PromptsFollowable
  <1>1. CallInv => PromptsFollowable
    BY DEF CallInv, CallOK, PromptsFollowable
  <1>2. QED
    BY <1>1, TypeInit, TypeStep, HttpInit, HttpStep, CallInit, CallStep, PTL DEF Spec

-----------------------------------------------------------------------------
(* Staged edits and the lock *)

\* Before the first operation nothing is staged.
LEMMA EditsOfZero == ASSUME NEW ops PROVE EditsOf(ops, 0) = Clean
  BY DEF EditsOf, Clean

\* Staging one more operation is what the longer list amounts to: the last
\* operation on a leaf decides.
LEMMA EditsOfNext ==
    ASSUME NEW ops, NEW i \in Nat \ {0},
           ops[i] \in [op : {"set", "delete"}, leaf : Leaves]
    PROVE  Edit(EditsOf(ops, i - 1), ops[i]) = EditsOf(ops, i)
  <1> DEFINE on(l, n) == {k \in 1..n : ops[k].leaf = l}
             at(S) == CHOOSE k \in S : \A j \in S : j <= k
             val(l, S) == IF S = {} THEN Untouched ELSE Edit(Clean, ops[at(S)])[l]
  <1>1. \A n : EditsOf(ops, n) = [l \in Leaves |-> val(l, on(l, n))]
    BY DEF EditsOf
  <1>2. ASSUME NEW l \in Leaves, l # ops[i].leaf
        PROVE  on(l, i) = on(l, i - 1)
    BY <1>2
  <1>3. at(on(ops[i].leaf, i)) = i
    <2>1. i \in on(ops[i].leaf, i) /\ \A j \in on(ops[i].leaf, i) : j <= i
      OBVIOUS
    <2>2. \A k \in on(ops[i].leaf, i) : k \in Nat
      OBVIOUS
    <2>3. \A k \in on(ops[i].leaf, i) :
            (\A j \in on(ops[i].leaf, i) : j <= k) => k = i
      BY <2>1, <2>2
    <2> HIDE DEF on
    <2>4. QED
      BY <2>1, <2>3
  <1>4. Edit(Clean, ops[i])[ops[i].leaf] = IF ops[i].op = "set" THEN "set" ELSE "absent"
    BY DEF Edit, Clean
  <1>5. val(ops[i].leaf, on(ops[i].leaf, i)) = IF ops[i].op = "set" THEN "set" ELSE "absent"
    <2>1. on(ops[i].leaf, i) # {}
      <3>1. i \in on(ops[i].leaf, i)
        OBVIOUS
      <3>2. QED
        BY <3>1
    <2> HIDE DEF on, at
    <2>2. QED
      BY <2>1, <1>3, <1>4
  <1>6. Edit(EditsOf(ops, i - 1), ops[i]) =
          [l \in Leaves |-> IF l = ops[i].leaf
                              THEN IF ops[i].op = "set" THEN "set" ELSE "absent"
                              ELSE val(l, on(l, i - 1))]
    <2> HIDE DEF val, on
    <2>1. QED
      BY <1>1 DEF Edit
  <1> HIDE DEF val, on, at
  <1>7. QED
    BY <1>1, <1>2, <1>5, <1>6

\* Who stages holds the lock of the endpoint, and the holder is staging
StageInv ==
    /\ \A c \in Clients : call[c].pc = "staging" => lock[call[c].ep] = c
    /\ \A e \in Endpoints : lock[e] # Nobody =>
         call[lock[e]].pc = "staging" /\ call[lock[e]].ep = e
    /\ StagedIsHolders

LEMMA StageInit == Init => StageInv
  BY DEF Init, StageInv, StagedIsHolders, NoCall

\* A step of a client that holds no lock before and after it
LEMMA NotStaging ==
    ASSUME TypeInv, StageInv, NEW c \in Clients, UNCHANGED router,
           call[c].pc # "staging", call'[c].pc # "staging",
           \A d \in Clients \ {c} : call'[d] = call[d]
    PROVE  StageInv'
  <1>1. \A e \in Endpoints : lock'[e] = lock[e] /\ staged'[e] = staged[e]
    BY DEF router
  <1>2. \A e \in Endpoints : lock[e] # Nobody =>
          lock[e] \in Clients \ {c} /\ call'[lock[e]] = call[lock[e]]
    BY DEF StageInv, TypeInv
  <1>3. \A d \in Clients : call'[d].pc = "staging" => d # c /\ call'[d] = call[d]
    OBVIOUS
  <1>4. lock' = lock
    BY DEF router
  <1>5. StagedIsHolders'
    BY <1>1, <1>2 DEF StageInv, StagedIsHolders
  <1>6. QED
    BY <1>1, <1>2, <1>3, <1>4, <1>5 DEF StageInv

LEMMA StageThread ==
    ASSUME TypeInv, CallInv, StageInv, NEW c \in Clients, Thread(c)
    PROVE  StageInv'
  <1> DEFINE e == call[c].ep
  <1>a. e \in Endpoints /\ c # Nobody /\ call[c].next \in Nat \ {0}
    BY McpAssumption DEF TypeInv, CallRecord
  <1>b. /\ OwnStep(c)
        /\ staged \in [Endpoints -> [Leaves -> Values \cup {Untouched}]]
        /\ lock \in [Endpoints -> Clients \cup {Nobody}]
    BY ThreadOthers DEF TypeInv
  <1> HIDE DEF e
  <1>c. \A d \in Clients \ {c} : call'[d] = call[d]
    BY <1>b DEF OwnStep
  <1>d. call'[c].ep = e /\ call'[c].ops = call[c].ops /\ call[c].ep = e
    BY <1>b DEF OwnStep, e
  <1>1. CASE GetPrompt(c) \/ RunCommand(c) \/ RenderConfig(c)
    <2>1. call[c].pc = "pool" /\ call'[c].pc = "done" /\ UNCHANGED router
      BY <1>1, GetPromptStep, RunCommandStep, RenderConfigStep
         DEF GetPrompt, RunCommand, RenderConfig
    <2>2. QED
      BY <2>1, <1>c, NotStaging
  <1>2. CASE Acquire(c)
    <2>1. /\ lock[e] = Nobody /\ lock' = [lock EXCEPT ![e] = c] /\ staged' = staged
          /\ call[c].pc = "pool" /\ call'[c].pc = "staging" /\ call'[c].next = call[c].next
      BY <1>2, AcquireStep DEF Acquire, Modifying, e
    <2>a. call'[c].next = 1
      BY <2>1 DEF CallInv, CallOK
    <2>2. call'[c].next - 1 = 0
      BY <2>a
    <2>3. staged[e] = EditsOf(call'[c].ops, call'[c].next - 1)
      BY <2>1, <2>2, <1>a, EditsOfZero DEF StageInv, StagedIsHolders
    <2>4. \A f \in Endpoints \ {e} : lock'[f] = lock[f] /\ lock[f] # c
      BY <1>a, <1>b, <2>1 DEF StageInv
    <2>5. lock'[e] = c
      BY <1>a, <1>b, <2>1
    <2>6. StagedIsHolders'
      BY <2>1, <2>3, <2>4, <2>5, <1>a, <1>b, <1>c DEF StageInv, StagedIsHolders
    <2>7. \A f \in Endpoints : lock'[f] # Nobody =>
            call'[lock'[f]].pc = "staging" /\ call'[lock'[f]].ep = f
      BY <2>1, <2>4, <2>5, <1>a, <1>b, <1>c, <1>d DEF StageInv
    <2>8. \A d \in Clients : call'[d].pc = "staging" => lock'[call'[d].ep] = d
      <3>1. ASSUME NEW d \in Clients \ {c}, call'[d].pc = "staging"
            PROVE  lock'[call'[d].ep] = d
        <4>1. call'[d] = call[d] /\ lock[call[d].ep] = d /\ call[d].ep \in Endpoints
          BY <3>1, <1>c DEF StageInv, TypeInv, CallRecord
        <4>2. d # Nobody
          BY McpAssumption
        <4>3. QED
          BY <4>1, <4>2, <2>1, <2>4
      <3>2. QED
        BY <3>1, <2>5, <1>d
    <2>9. QED
      BY <2>6, <2>7, <2>8 DEF StageInv
  <1>3. CASE StageEdit(c)
    <2>1. /\ lock' = lock /\ call[c].pc = "staging" /\ call'[c].pc = "staging"
          /\ staged' = [staged EXCEPT ![e] = Edit(staged[e], call[c].ops[call[c].next])]
          /\ call'[c].next = call[c].next + 1 /\ call[c].next <= Len(call[c].ops)
      BY <1>3, StageEditStep DEF StageEdit, Modifying, e
    <2>2. lock[e] = c
      BY <2>1, <1>d DEF StageInv
    <2>3. staged[e] = EditsOf(call[c].ops, call[c].next - 1)
      BY <2>2, <1>a DEF StageInv, StagedIsHolders
    <2>4. call[c].ops[call[c].next] \in [op : {"set", "delete"}, leaf : Leaves]
      BY <2>1, NextOp
    <2>5. staged'[e] = EditsOf(call[c].ops, call[c].next)
      BY <2>1, <2>3, <2>4, <1>a, <1>b, EditsOfNext
    <2>6. call'[c].next - 1 = call[c].next
      BY <2>1, <1>a
    <2>7. staged'[e] = EditsOf(call'[c].ops, call'[c].next - 1)
      BY <2>5, <2>6, <1>d
    <2>8. \A f \in Endpoints \ {e} : staged'[f] = staged[f] /\ lock[f] # c
      BY <1>a, <1>b, <1>d, <2>1 DEF StageInv
    <2>9. StagedIsHolders'
      BY <2>1, <2>2, <2>7, <2>8, <1>a, <1>b, <1>c DEF StageInv, StagedIsHolders
    <2>10. QED
      BY <2>1, <2>2, <2>8, <2>9, <1>a, <1>b, <1>c, <1>d DEF StageInv
  <1>4. CASE ModifyFails(c) \/ Commit(c)
    <2>1. /\ lock' = [lock EXCEPT ![e] = Nobody] /\ staged' = [staged EXCEPT ![e] = Clean]
          /\ call[c].pc = "staging" /\ call'[c].pc = "done"
      BY <1>4, ModifyFailsStep, CommitStepEffect DEF ModifyFails, Commit, Modifying, e
    <2>2. lock[e] = c
      BY <2>1, <1>d DEF StageInv
    <2>3. lock'[e] = Nobody /\ staged'[e] = Clean
      BY <2>1, <1>a, <1>b
    <2>4. \A f \in Endpoints \ {e} : lock'[f] = lock[f] /\ staged'[f] = staged[f] /\ lock[f] # c
      BY <1>a, <1>b, <1>d, <2>1 DEF StageInv
    <2>5. StagedIsHolders'
      BY <2>3, <2>4, <1>b, <1>c DEF StageInv, StagedIsHolders
    <2>6. \A f \in Endpoints : lock'[f] # Nobody =>
            call'[lock'[f]].pc = "staging" /\ call'[lock'[f]].ep = f
      BY <2>3, <2>4, <1>b, <1>c DEF StageInv
    <2>7. ASSUME NEW d \in Clients, call'[d].pc = "staging"
          PROVE  lock'[call'[d].ep] = d
      <3>1. d # c /\ call'[d] = call[d]
        BY <2>1, <2>7, <1>c
      <3>2. lock[call[d].ep] = d /\ call[d].ep \in Endpoints
        BY <2>7, <3>1 DEF StageInv, TypeInv, CallRecord
      <3>3. call[d].ep # e
        BY <3>1, <3>2, <2>2
      <3>4. QED
        BY <3>1, <3>2, <3>3, <2>4
    <2>8. QED
      BY <2>5, <2>6, <2>7 DEF StageInv
  <1>5. QED
    BY <1>1, <1>2, <1>3, <1>4 DEF Thread

LEMMA StageStep == TypeInv /\ CallInv /\ StageInv /\ [Next]_vars => StageInv'
  <1> SUFFICES ASSUME TypeInv, CallInv, StageInv, [Next]_vars PROVE StageInv'
    OBVIOUS
  <1>a. ASSUME UNCHANGED <<call, staged, lock>> PROVE StageInv'
    BY <1>a DEF StageInv, StagedIsHolders
  <1>1. CASE Initialize \/ Startup \/ StopStdio
    BY <1>1, <1>a DEF Initialize, Startup, StopStdio, router
  <1>2. CASE StartStdio
    <2>1. lock["stdio"] = Nobody
      <3>1. SUFFICES ASSUME lock["stdio"] # Nobody PROVE FALSE
        OBVIOUS
      <3>2. /\ lock["stdio"] \in Clients /\ call[lock["stdio"]].pc = "staging"
            /\ call[lock["stdio"]].ep = "stdio"
        BY <3>1 DEF StageInv, TypeInv, Endpoints
      <3>3. stdio.exists
        BY <3>2 DEF CallInv, CallOK
      <3>4. QED
        BY <1>2, <3>3 DEF StartStdio
    <2>2. staged["stdio"] = Clean
      BY <2>1 DEF StageInv, StagedIsHolders, Endpoints
    <2>3. staged' = staged
      BY <1>2, <2>2 DEF StartStdio, TypeInv
    <2>4. QED
      BY <1>2, <2>3, <1>a DEF StartStdio
  <1>3. ASSUME NEW new \in Configs, Reload(new)
        PROVE  StageInv'
    BY <1>3, <1>a DEF Reload, router
  <1>4. ASSUME NEW c \in Clients \ {Rest}, NEW k \in Keys, OpenSession(c, k)
        PROVE  StageInv'
    BY <1>4, <1>a DEF OpenSession, router
  <1>5. ASSUME NEW c \in Clients \ {Rest}, NEW name \in Requests, NEW ops \in EditLists,
               HttpRequest(c, name, ops) \/ StdioRequest(c, name, ops)
        PROVE  StageInv'
    <2>1. PICK ep \in Endpoints, srv \in Servers : Request(c, ep, srv, name, ops)
      BY <1>5 DEF HttpRequest, StdioRequest, TypeInv, Endpoints
    <2>2. /\ call[c].pc = "idle" /\ call'[c].pc = "pool"
          /\ \A d \in Clients \ {c} : call'[d] = call[d]
      BY <2>1, RequestStep
    <2>3. QED
      BY <1>5, <2>2, NotStaging, RequestKeepsHttp
  <1>6. ASSUME NEW ops \in EditLists, RestRequest(ops)
        PROVE  StageInv'
    BY <1>6, RestRequestStep, NotStaging, McpAssumption DEF RestRequest
  <1>7. ASSUME NEW c \in Clients, Thread(c)
        PROVE  StageInv'
    BY <1>7, StageThread
  <1>8. ASSUME NEW c \in Clients, Reply(c)
        PROVE  StageInv'
    <2>1. call[c].pc = "done" /\ call'[c].pc = "idle" /\ UNCHANGED router
      BY <1>8, ReplyStep DEF Reply, NoCall
    <2>2. QED
      BY <1>8, <2>1, ReplyStep, NotStaging
  <1>9. CASE UNCHANGED vars
    BY <1>9, <1>a DEF vars
  <1>10. QED
    BY <1>1, <1>2, <1>3, <1>4, <1>5, <1>6, <1>7, <1>8, <1>9, NextCases

\* The shared configuration session holds the edits of the lock's holder and
\* nothing else, through failures, other clients and restarts of stdio
\* (_modify_configuration).
THEOREM StagedBelongsToHolder == Spec => []StagedIsHolders
  <1>1. StageInv => StagedIsHolders
    BY DEF StageInv
  <1>2. QED
    BY <1>1, TypeInit, TypeStep, HttpInit, HttpStep, CallInit, CallStep, StageInit, StageStep,
       PTL DEF Spec

\* The body of CommitsWhole
WholeStep ==
    \A c \in Clients : CommitStep(c) =>
      running' = Working(EditsOf(call[c].ops, Len(call[c].ops)))

LEMMA CommitsAreWhole ==
    ASSUME TypeInv, StageInv, [Next]_vars
    PROVE  WholeStep
  <1> SUFFICES ASSUME NEW c \in Clients, CommitStep(c)
               PROVE  running' = Working(EditsOf(call[c].ops, Len(call[c].ops)))
    BY DEF WholeStep
  <1>a. call[c].effect # "commit" /\ call'[c].effect = "commit"
    BY DEF CommitStep
  <1>1. CASE Commit(c)
    <2>1. /\ call[c].pc = "staging" /\ call[c].next > Len(call[c].ops)
          /\ running' = Working(staged[call[c].ep])
      BY <1>1 DEF Commit, Modifying
    <2>2. call[c] \in CallRecord /\ call[c].next <= Len(call[c].ops) + 1
      BY DEF TypeInv
    <2>3. Len(call[c].ops) \in Nat /\ call[c].next \in Nat /\ call[c].ep \in Endpoints
      BY <2>2, OpsType DEF CallRecord
    <2>4. call[c].next - 1 = Len(call[c].ops)
      BY <2>1, <2>2, <2>3
    <2>5. lock[call[c].ep] = c /\ c # Nobody
      BY <2>1, McpAssumption DEF StageInv
    <2>6. staged[call[c].ep] = EditsOf(call[c].ops, call[c].next - 1)
      BY <2>3, <2>5 DEF StageInv, StagedIsHolders
    <2>7. QED
      BY <2>1, <2>4, <2>6
  <1>2. ASSUME NEW d \in Clients, Thread(d), ~Commit(c)
        PROVE  FALSE
    <2>1. d = c
      BY <1>2, <1>a, ThreadOthers DEF OwnStep
    <2>2. ~RunCommand(c)
      BY <1>a, RunCommandStep DEF WriteTools
    <2>3. QED
      BY <1>2, <1>a, <2>1, <2>2, GetPromptStep, RenderConfigStep, AcquireStep, StageEditStep,
         ModifyFailsStep DEF Thread
  <1>3. ASSUME NEW d \in Clients, Reply(d)
        PROVE  FALSE
    BY <1>3, <1>a, ReplyStep DEF NoCall
  <1>4. ASSUME NEW d \in Clients \ {Rest}, NEW name \in Requests, NEW ops \in EditLists,
               HttpRequest(d, name, ops) \/ StdioRequest(d, name, ops)
        PROVE  FALSE
    <2>1. PICK ep \in Endpoints, srv \in Servers : Request(d, ep, srv, name, ops)
      BY <1>4 DEF HttpRequest, StdioRequest, TypeInv, Endpoints
    <2>2. call'[d].effect = "none" /\ \A x \in Clients \ {d} : call'[x] = call[x]
      BY <2>1, RequestStep
    <2>3. QED
      BY <1>a, <2>2
  <1>5. ASSUME NEW ops \in EditLists, RestRequest(ops)
        PROVE  FALSE
    BY <1>5, <1>a, RestRequestStep
  <1>6. ~UNCHANGED call
    BY <1>a
  <1>7. ~UNCHANGED vars
    BY <1>6 DEF vars
  <1>8. ~(\/ Initialize \/ Startup \/ StartStdio \/ StopStdio
          \/ \E new \in Configs : Reload(new)
          \/ \E d \in Clients \ {Rest}, k \in Keys : OpenSession(d, k))
    BY <1>6 DEF Initialize, Startup, StartStdio, StopStdio, Reload, OpenSession
  <1>9. QED
    BY <1>1, <1>2, <1>3, <1>4, <1>5, <1>7, <1>8, NextCases

\* A commit applies the operations of its own request, every one and no other
\* request's, over the configuration active at that moment.
THEOREM CommitsAreAtomic == Spec => CommitsWhole
  <1>1. TypeInv /\ StageInv /\ [Next]_vars => [WholeStep]_vars
    BY CommitsAreWhole
  <1>2. QED
    BY <1>1, TypeInit, TypeStep, HttpInit, HttpStep, CallInit, CallStep, StageInit, StageStep,
       PTL DEF Spec, CommitsWhole, WholeStep
=============================================================================
