---------------------------- MODULE MCMcpService ----------------------------
(* A small instance of McpService. *)
EXTENDS McpService

\* Two leaves in one request; one leaf twice
MCEditLists ==
    { <<[op |-> "set", leaf |-> "name"], [op |-> "set", leaf |-> "cert"]>>,
      <<[op |-> "delete", leaf |-> "psk"], [op |-> "set", leaf |-> "psk"]>> }
=============================================================================
