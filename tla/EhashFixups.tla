---------------------------- MODULE EhashFixups ----------------------------
(***************************************************************************)
(* The fixups of the external-hash flow table: key profiles, VLAN and      *)
(* PPPoE actions, the fragmentation pool, the bucket index, the record     *)
(* pool and the bucket mirror.  Most are batches: every edit of every file *)
(* is gated before the first file is written.                              *)
(***************************************************************************)
EXTENDS FixupText

F_254 == Fixup("F_254", PcdC, "F-254", <<
    Gate("254.1", "y chain", {"F-254"}),
    Gate("254.2", "x free", {"F-254 SYNC tail", "list_del x"}) >>)

F_255_profiles ==
    On(PcdH, << Beside("255.1", "fe_engage decl", {"F-255"}) >>) \o
    On(PcdIntH, << Beside("255.2", "get_lock decl", {"F-255"}) >>) \o
    On(KgH, << Beside("255.3", "gec_dual_lane decl", {"F-255"}) >>) \o
    On(PcdKgC, << Gate("255.4", "saved_engine", {"F-255"}) >>) \o
    On(KgC, << Gate("255.5", "gec lane test", {"F-255"}) >>)

F_255_engage == On(PcdC, <<
    Beside("255.6", "struct fman_pcd", {"F-255"}),
    Gate("255.7", "fe_verify_internal", {"profile ROUTED", "fe_port_profile"}),
    Gate("255.8", "table_set 46", {}),
    Gate("255.9", "fe_engage def", {}),
    Gate("255.10", "fe_engage tail", {"fe_engage log"}),
    Beside("255.11", "arming table", {}),
    Gate("255.12", "disengage F-129", {}) >>)

F_255 == Batch("F_255", "F-255", F_255_profiles \o F_255_engage)

F_256 == Batch("F_256", "F-256",
    On(FmanC, << Gate("256.1", "bus error log", {"F-256"}) >>) \o
    On(PcdC, << Gate("256.2", "F-254 SYNC tail", {"F-256"}) >>))

F_257 == Fixup("F_257", PcdC, "F-257", <<Gate("257.1", "x free tail", {"F-257", "del free"})>>)

F_259 == Batch("F_259", "F-259",
    On(PcdH, << Beside("259.1", "FE_FLOW_KEY_MAX", {"F-259"}) >>) \o
    On(KgC, << Gate("259.2", "gec[5]", {"F-259", "next_engine == 3"}) >>) \o
    On(PcdC, << Gate("259.3", "profile ROUTED", {"F-259"}),
                Gate("259.4", "ehash_key_sz", {}) >>) \o
    On(EthtoolC, << Gate("259.5", "DPAA_CLS_KEY_MAX", {"F-259"}) >>) \o
    On(EthC, << Gate("259.6", "flower key[46]", {"F-259"}),
                Gate("259.7", "FLOWER_KEY_MAX", {}) >>))

F_260 == Batch("F_260", "F-260",
    On(PcdH, << Beside("260.1", "VLANF_PUSH", {"F-260", "VLANF_PPPOE_STRIP"}) >>) \o
    On(PcdC, << Times(2, Gate("260.2", "vlan flags test", {"F-260", "F-260 flags test"})),
                Gate("260.3", "vlan_oi", {}) >>))

F_261 == Batch("F_261", "F-261",
    On(PcdH, << Beside("261.1", "VLANF_PPPOE_STRIP", {"F-261", "VLANF_PPPOE_INSERT"}),
                Gate("261.2", "push_tpid end", {"params pppoe_sid"}),
                Beside("261.3", "vlan_push_tpid", {"action pppoe_sid"}) >>) \o
    On(PcdC, << Times(2, Gate("261.4", "F-260 flags test", {"F-261"})),
                Beside("261.5", "push test", {}),
                Gate("261.6", "mtu 1500", {"pppoe mtu"}),
                Beside("261.7", ".push_tpid", {".pppoe_sid"}) >>))

F_262_port ==
    On(PortC, << Beside("262.1", "ctrl_params_page", {"F-262"}),
                 Beside("262.2", "set_params_page export", {}) >>) \o
    On(PortH, << Beside("262.3", "set_params_page decl", {"F-262"}) >>) \o
    On(PcdC, << Beside("262.4", "fe_port_profile", {"F-262"}),
                Beside("262.5", "fe_engage log", {}),
                Gate("262.6", "fsleep port_del", {}) >>)

F_262_pool ==
    On(PcdH, << Gate("262.7", "action pppoe_sid", {"F-262"}),
                Gate("262.8", "params pppoe_sid", {}) >>) \o
    On(PcdC, << Beside("262.9", "include fman_pcd.h", {}),
                Beside("262.10", "fe_stats_off field", {}),
                Beside("262.11", "STATS_SCRATCH_SIZE", {}),
                Beside("262.12", "raw_size", {}),
                Gate("262.13", "memset_io", {}),
                Beside("262.14", "fe_stats_off set", {}),
                Beside("262.15", "fe_stats_off clear", {}) >>)

F_262_key == On(PcdC, <<
    Beside("262.16", "add_key def", {"frag_lock tail"}),
    Beside("262.17", "key_size check", {"F-262 mtu check"}),
    Beside("262.18", "enqueue_off decl", {}),
    Beside("262.19", "vlan_pop", {}),
    Beside("262.20", "param_end", {}),
    Beside("262.21", ".pppoe_sid", {}),
    Gate("262.22", "_vlan arg", {}) >>)

F_262 == Batch("F_262", "F-262", F_262_port \o F_262_pool \o F_262_key)

F_263 == Fixup("F_263", PcdC, "F-263", <<Gate("263.1", "F-143 node write", {"F-263"})>>)

-----------------------------------------------------------------------------
F_264 ==
    [Fixup("F_264", PcdC, "F-264", <<
        Gate("264.1", "flows list", {"F-264", "bidx field"}),
        Beside("264.2", "struct flow", {}),
        Gate("264.3", "kzalloc t", {"bidx check"}),
        Gate("264.4", "err_free_t", {"err_free_t bidx"}),
        Gate("264.5", "table free", {}),
        Gate("264.6", "list_add flow", {"list_add bidx"}),
        Beside("264.7", "bucket restore", {"drain free"}),
        Gate("264.8", "list_del x", {}),
        Gate("264.9", "del_key comment", {}),
        Gate("264.10", "find x", {}),
        Gate("264.11", "walk y", {}),
        Gate("264.12", "find dup", {}) >>)
     EXCEPT !.stages = << Needing(PcdC, {"F-263"}, @[1]) >>]

F_265 == Fixup("F_265", PcdC, "F-265", <<
    Times(2, Gate("265.1", "F-177 log", {"F-265"})),
    Gate("265.2", "F-148 warn", {}) >>)

F_266_port ==
    On(PortC, << Gate("266.1", "sp disarm log", {"F-266"}),
                 Beside("266.2", "sp_disarm export", {}) >>) \o
    On(PortH, << Beside("266.3", "sp_disarm slot decl", {"F-266"}) >>)

F_266_punt == On(PcdC, << Beside("266.4", "offload_disengage export", {"F-266"}) >>)

\* F-266 refuses a tree in which only some of its files carry the marker.
F_266 ==
    [Batch("F_266", "F-266", F_266_port \o F_266_punt \o
        On(PcdH, << Beside("266.5", "enq_get_offset decl", {"F-266"}) >>))
     EXCEPT !.mixed = TRUE]

F_267_pool == <<
    Beside("267.1", "include dma-mapping", {"include dmapool"}),
    Gate("267.2", "bidx field", {"rec_pool", "rec_pool field"}),
    Beside("267.3", "t->dev set", {"rec_pool check"}),
    Gate("267.4", "flow_drain table free", {"pool destroy"}),
    Beside("267.5", "FE_CTX_SIZE", {}),
    Gate("267.6", "record field", {}),
    Gate("267.7", "ctx field", {}) >>

F_267_alloc == <<
    Cutting({"alloc record"}, Gate("267.8", "record alloc", {})),
    Cutting({"alloc ctx"}, Gate("267.9", "ctx alloc", {})),
    Gate("267.10", "drain free", {"drain def"}),
    Cutting({"F-257", "free record", "free ctx"}, Gate("267.11", "del free", {"del_key def"})),
    Gate("267.12", "F-219 log", {}),
    Gate("267.13", "bucket index call", {}),
    Gate("267.14", "F-19x log", {}),
    Gate("267.15", "F-251 log", {}) >>

\* No per-flow coherent allocation may survive F-267.
F_267 ==
    [Fixup("F_267", PcdC, "rec_pool", F_267_pool \o F_267_alloc)
     EXCEPT !.stages =
        << Gone(PcdC, {"alloc record", "alloc ctx", "free record", "free ctx"}, @[1]) >>]

F_268 == Batch("F_268", "F-268",
    On(PcdH, << Beside("268.1", "VLANF_PPPOE_INSERT", {"F-268"}) >>) \o
    On(PcdC, << Beside("268.2", "F-262 mtu check", {"F-268"}),
                Beside("268.3", "vlan_pop", {}),
                Gate("268.4", "UPDATE_TTL", {}),
                Gate("268.5", "pppoe mtu", {"F-268 mtu"}) >>))

\* The bucket mirror replaces every use of the saved head.
F_269 ==
    [Fixup("F_269", PcdC, "bucket_publish", <<
        Beside("269.1", "include dmapool", {}),
        Beside("269.2", "struct table", {}),
        Gate("269.3", "rec_pool field", {}),
        Beside("269.4", "bidx check", {}),
        Beside("269.5", "rec_pool check", {}),
        Gate("269.6", "err_free_t bidx", {}),
        Gate("269.7", "pool destroy", {}),
        Gate("269.8", "prev_head field", {}),
        Gate("269.9", "frag_lock tail", {"bucket_publish", "F-254 SYNC def"}),
        Gate("269.10", "prev_head locals", {}),
        Gate("269.11", "prev_head read", {}),
        Cutting({"old_native"}, Gate("269.12", "old_native write", {})),
        Gate("269.13", "head insert", {}),
        Gate("269.14", "list_add bidx", {}),
        Cutting({"bucket restore"}, Gate("269.15", "drain def", {})),
        Cutting({"prev_head"}, Gate("269.16", "del_key def", {})) >>)
     EXCEPT !.stages = << Gone(PcdC, {"prev_head", "old_native"}, @[1]) >>]

F_270 == Fixup("F_270", PcdC, "F-270", <<Gate("270.1", "F-268 mtu", {"F-270"})>>)

F_271 == Fixup("F_271", PcdC, "F-271", <<Gate("271.1", "F-254 SYNC def", {"F-271"})>>)

F_272 == Fixup("F_272", PcdC, "F-272", <<Gate("272.1", "push_tci word", {"F-272"})>>)
=============================================================================
