---------------------------- MODULE KernelChain ----------------------------
(***************************************************************************)
(* The kernel sources as the patches leave them and the chain of fixups    *)
(* that bin/ci-setup-kernel.sh runs over them.                             *)
(***************************************************************************)
EXTENDS EthFixups, KeygenFixups, ProbeFixups, EhashFixups

(* The tree the patches leave behind.                                      *)

Text(once, twice) == SetToBag(once) (+) [t \in twice |-> 2]

SourceFiles ==
    {EthC, EthH, OffH, EthtoolC, SfpC, QmanC, FmanC, FmanH, KgC, KgH, PortC,
     PortH, PcdC, PcdH, PcdIntH, PcdKgC, TestC, CcC}

\* The passages of each file after the board patches: what the kernel and the
\* patches supply, those of them included that an earlier round of work folded
\* from a fixup into a patch.
PatchedText(f) ==
    CASE f = EthC     -> Text({
              "TC_SETUP_BLOCK dispatch", "context_a 0x1e", "FQ_TD 2MB",
              "MAX_BUF_COUNT 128", "RX_PRIV_DATA", "first static",
              "hash_result_offset", "be32 read", "rx error tail",
              "RXHASH comment", "qm_fd_contig branch", "be32 hash read",
              "flower key[46]", "FLOWER_KEY_MAX", "CGR test",
              "get_tx_fqid export", "BP_RAW_SIZE", "alloc order",
              "contig free", "SGT free", "sg member free", "sg error free",
              "xdp sg free", "xdp tx free", "xdp redirect free",
              "xdp drop free", "phy connect", "swbp branch", "Err FD status"}, {})
      [] f = EthH     -> Text({"UMEM_CHUNK 3840", "FQ_TYPE_TX_ERROR end"}, {})
      [] f = OffH     -> Text({"offload.h decls"}, {})
      [] f = EthtoolC -> Text({"DPAA_CLS_KEY_MAX"}, {})
      [] f = SfpC     -> Text({"SFP quirk"}, {})
      [] f = QmanC    -> Text({
              "p_poll_dqrr", "irqsource_add", "irqsource_remove", "MR fqs",
              "MR ern", "SDQCR"}, {})
      [] f = FmanC    -> Text({"set_fpm_extc export", "bus error log"}, {})
      [] f = FmanH    -> Text({"keygen field", "set_fpm_extc decl"}, {})
      [] f = KgC      -> Text({
              "EKFC default", "AC_CC pure", "ekfc override", "F-051 clears",
              "bind_port export"}, {"kgse_bmcl = 0"})
      [] f = KgH      -> Text({"cc_bits_sel end", "fman_keygen body", "bind_port decl"}, {})
      [] f = PortC    -> Text({
              "NIA_KG_DIRECT", "set_kg_direct", "set_lcv_split",
              "fmbm_rccb write", "F-215(sync-gate)", "clear_lcv_split tail",
              "ctrl_params_page", "set_params_page export"}, {})
      [] f = PortH    -> Text({"port.h tail", "set_params_page decl"}, {})
      [] f = PcdC     -> Text({
              "fe_pool_off field", "slot 5", "fe_pool_off saved", "probe_show",
              "probe print", "nonzero filter", "fe_probe file",
              "fe_recover_fops", "fe_recover", "probe2_buf", "PROBE2_LEN",
              "y chain", "x free", "struct fman_pcd", "fe_verify_internal",
              "table_set 46", "fe_engage def", "fe_engage tail",
              "arming table", "disengage F-129", "x free tail", "ehash_key_sz",
              "vlan_oi", "push test", "mtu 1500", ".push_tpid",
              "fsleep port_del", "include fman_pcd.h", "fe_stats_off field",
              "STATS_SCRATCH_SIZE", "raw_size", "memset_io",
              "fe_stats_off set", "fe_stats_off clear", "add_key def",
              "key_size check", "enqueue_off decl", "vlan_pop", "param_end",
              "_vlan arg", "F-143 node write", "flows list", "struct flow",
              "kzalloc t", "err_free_t", "table free", "list_add flow",
              "bucket restore", "del_key comment", "find x", "walk y",
              "find dup", "F-148 warn", "offload_disengage export",
              "include dma-mapping", "t->dev set", "flow_drain table free",
              "FE_CTX_SIZE", "record field", "ctx field", "record alloc",
              "ctx alloc", "F-219 log", "bucket index call", "F-19x log",
              "F-251 log", "alloc record", "alloc ctx", "free record",
              "free ctx", "UPDATE_TTL", "struct table", "prev_head field",
              "prev_head locals", "prev_head read", "old_native write",
              "head insert", "prev_head", "old_native", "push_tci word"},
              {"vlan flags test", "F-177 log"})
      [] f = PcdH     -> Text({
              "fe_engage decl", "FE_FLOW_KEY_MAX", "VLANF_PUSH",
              "push_tpid end", "vlan_push_tpid", "enq_get_offset decl"}, {})
      [] f = PcdIntH  -> Text({"get_lock decl"}, {})
      [] f = PcdKgC   -> Text({
              "set_kg_direct(rxport", "clear_kg_direct(rxport",
              "export attach_cc", "saved_engine", "v6 node word3",
              "disarm rxport", "v6 bind call"}, {})
      [] f = TestC    -> Text({
              "vlan_hm state", "install and tail", "cc_test_write def",
              "cc_test_write tail", "cc_test fops", "cc_test file",
              "cc_test locals", "install_v6pid", "v6pid tail", "install verb",
              "cc_test_vlan_hm", "IPV4_FORWARD"}, {})
      [] f = CcC      -> Text({"seq_dump", "AD_ENTRY_SIZE", "dump keys", "dump tail"}, {})

PatchedTree == [f \in SourceFiles |-> PatchedText(f)]

-----------------------------------------------------------------------------
(* The chain: each script with the files the driver tests for before it    *)
(* calls it.                                                               *)

When(files, scripts) == [i \in DOMAIN scripts |-> [guard |-> files, script |-> scripts[i]]]

\* bin/test-ehash-delete.py compiles the finished insert and delete code: it
\* needs the bucket mirror and the SYNC with its counters.
TestEhashDelete ==
    Script("test-ehash-delete",
           << Needing(PcdC, {"bucket_publish", "F-271"}, Stage(<<>>)) >>)

EthChain ==
    When({EthC}, EthMutations) \o When({PcdC}, <<F_068>>) \o
    When({SfpC}, <<SfpMutation>>) \o When({KgC}, <<KgMutation, F_062c>>) \o
    When({PortC}, <<M2_4_2>>) \o When({PortC, PcdC}, <<F_056, F_086>>) \o
    When({PortC, PcdC, EthC}, <<F_072>>) \o When({PortC}, <<F_101, F_102, F_108>>)

PortChain ==
    When({PcdKgC}, <<F_162>>) \o When({PortC}, <<F_205, F_168, F_215>>) \o
    When({EthC}, <<F_216>>) \o
    When({KgC}, <<F_179, F_201, F_209, F_224, F_236, F_238>>) \o
    When({PcdC, EthC}, <<F_239>>) \o When({EthC}, <<F_258>>)

TestChain ==
    When({PortC, PortH, TestC}, <<F_240>>) \o When({TestC, PcdC}, <<F_241>>) \o
    When({KgC}, <<F_242>>) \o When({PortC, PortH, TestC}, <<F_243>>) \o
    When({TestC}, <<F_244>>) \o When({PortC, PortH, TestC}, <<F_245>>) \o
    When({TestC}, <<F_246, F_248, F_249, F_250>>) \o When({CcC}, <<F_251>>) \o
    When({TestC}, <<F_247>>)

\* Mutant: the mirror and its SYNC before the record pool.
EhashChainSwapped ==
    When({PcdC}, <<F_254, F_255>>) \o When({FmanC}, <<F_256>>) \o
    When({PcdC}, <<F_257>>) \o When({KgC}, <<F_259>>) \o
    When({PcdC}, <<F_260, F_261, F_262, F_263, F_264, F_265, F_266, F_269, F_271,
                   F_267, F_268, TestEhashDelete, F_270, F_272>>)

EhashChain ==
    When({PcdC}, <<F_254, F_255>>) \o When({FmanC}, <<F_256>>) \o
    When({PcdC}, <<F_257>>) \o When({KgC}, <<F_259>>) \o
    When({PcdC}, <<F_260, F_261, F_262, F_263, F_264, F_265, F_266, F_267,
                   F_268, F_269, F_271, TestEhashDelete, F_270, F_272>>)

LateChain ==
    When({EthC}, <<F_199, F_203, F_222, F_227, F_229>>) \o When({PcdC}, <<F_212, F_214>>)

FixupChain == EthChain \o PortChain \o TestChain \o EhashChain \o LateChain

\* Known not to land on the intended tree: F-199's comments carry F-227's
\* marker (StepsEffective).
ShadowedEdits == {"227.1"}

\* The scripts that are not idempotent: mutate.py has no marker, and F-072
\* puts the capture back that F-216 removed.
NotIdempotentScripts == {"mutate1", "mutate7", "F_072"}
=============================================================================
