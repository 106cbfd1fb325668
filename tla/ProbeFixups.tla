---------------------------- MODULE ProbeFixups ----------------------------
(***************************************************************************)
(* The fixups of the coarse-classifier test rig (fman_pcd_cc_test.c), the  *)
(* debugfs probes and the soft-parser attachment of the FMan ports.        *)
(***************************************************************************)
EXTENDS FixupText

\* The probe of the FE pool: a field, the slot that fills it, the debugfs file.
M2_4_2_pool == <<
    Unless({"fe_pool_off field"}, Loose(Beside("M2.1", "fe_refcount", {"fe_pool_off field"}))),
    Unless({"slot 5", "fe_pool_off saved"}, Loose(
        Beside("M2.2", "fe_pool tail", {"slot 5", "fe_pool_off saved"}))) >>

M2_4_2_probe == <<
    Unless({"probe_show"}, Every(Beside("M2.3", "hashfe_show", {"probe_show", "nonzero filter"}))),
    Soft(Every(Gate("M2.4", "loop 8", {}))),
    Unless({"nonzero filter"}, Soft(Every(Gate("M2.5", "probe print", {"nonzero filter"})))),
    Unless({"fe_probe file"}, Every(Beside("M2.6", "fe_hashfe file", {"fe_probe file"}))) >>

M2_4_2 == Script("M2_4_2", <<Stage(On(PcdC, M2_4_2_pool \o M2_4_2_probe))>>)

F_056 == Script("F_056", <<Stage(On(PcdC, <<Soft(Gate("56.1", "fe_arm ENGAGED log", {}))>>))>>)

\* Each of the three reversions is made only where its text is found.
F_068 == Script("F_068", << Stage(On(PcdC, <<
    Soft(Gate("68.1", "next_engine = 2", {})),
    Soft(Gate("68.2", "F-068 CC group", {})),
    Unless({"rxport lookup"}, Soft(Gate("68.3", "F-068 CCBS stub", {"rxport lookup"}))) >>)) >>)

\* The inline F-086: the fe_recover debugfs file.
F_086 == Script("F_086", << Stage(On(PcdC, <<
    Unless({"fe_recover_fops"}, Loose(Beside("86.1", "fe_hashfe fops", {"fe_recover_fops"}))),
    Unless({"fe_recover"}, Loose(Beside("86.2", "fe_hashfe file", {"fe_recover"}))) >>)) >>)

-----------------------------------------------------------------------------
F_240_port == <<
    StageUnless(PortH, "F-240(ricp-widen)", On(PortH, <<
        Beside("240.1", "clear_lcv decl", {"F-240(ricp-widen)"}) >>)),
    StageUnless(PortC, "F-240(ricp-widen)", On(PortC, <<
        Beside("240.2", "clear_lcv_split tail", {"F-240(ricp-widen)", "restore_ricp export"}) >>)) >>

F_240_test ==
    StageUnless(TestC, "F-240(ricp-widen)", On(TestC, <<
        Beside("240.3", "vlan_hm state", {"F-240(ricp-widen)", "saved_ricp", "ricp_widened", "ricp state"}),
        Gate("240.4", "install and tail", {"widen_ricp", "restore_ricp"}) >>))

F_240 == IfExist({PortC, PortH, TestC}, Script("F_240", F_240_port \o <<F_240_test>>))

F_241_probe3 == <<
    Beside("241.1", "ricp state", {"F-241(probe3-atomic)", "probe3"}),
    Beside("241.2", "cc_test_write def", {"probe3 mode", "probe3 reprefix", "probe3 dispatch"}) >>

F_241_files == <<
    Beside("241.3", "cc_test_write tail", {}),
    Beside("241.4", "cc_test fops", {}),
    Beside("241.5", "cc_test file", {}) >>

\* F-239's buffer is looked for before the marker.
F_241 ==
    IfExist({TestC, PcdC}, Script("F_241", <<
        Needing(PcdC, {"PROBE2_LEN", "probe2_buf"}, Stage(<<>>)),
        Needing(TestC, {"saved_ricp", "ricp_widened", "widen_ricp", "restore_ricp"},
            StageUnless(TestC, "F-241(probe3-atomic)", On(TestC, F_241_probe3 \o F_241_files))) >>))

F_243_port == <<
    StageUnless(PortH, "F-243(sp-lcv-poc)", On(PortH, <<
        Beside("243.1", "clear_lcv decl", {"F-243(sp-lcv-poc)", "sp decls"}) >>)),
    StageUnless(PortC, "F-243(sp-lcv-poc)", On(PortC, << Beside("243.2", "restore_ricp export",
        {"F-243(sp-lcv-poc)", "sp_arm def", "sp_disarm def", "sp disarm log", "sp_disarm export"}) >>)) >>

F_243_load == <<
    Beside("243.3", "ricp state", {"F-243(sp-lcv-poc)", "sp state"}),
    Beside("243.4", "cc_test_write def", {"sp poc code", "sp_load tail"}) >>

F_243_verbs == << Beside("243.5", "cc_test_write tail", {"sp_arm verb", "sp_load verb"}) >>

F_243 ==
    IfExist({PortC, PortH, TestC}, Script("F_243", F_243_port \o <<
        Needing(TestC, {"saved_ricp"},
            StageUnless(TestC, "F-243(sp-lcv-poc)", On(TestC, F_243_load \o F_243_verbs))) >>))

F_244 ==
    IfExist({TestC}, Fixup("F_244", TestC, "F-244(sp-magic-byte)",
        <<Gate("244.1", "sp poc code", {"F-244(sp-magic-byte)"})>>))

F_245_port == <<
    StageUnless(PortH, "F-245(sp-arm-any-slot)", On(PortH, <<
        Gate("245.1", "sp decls", {"F-245(sp-arm-any-slot)", "sp_disarm slot decl"}) >>)),
    StageUnless(PortC, "F-245(sp-arm-any-slot)", On(PortC, <<
        Gate("245.2", "sp_arm def", {"F-245(sp-arm-any-slot)"}),
        Gate("245.3", "sp_disarm def", {}) >>)) >>

F_245_test ==
    StageUnless(TestC, "F-245(sp-arm-any-slot)", On(TestC, <<
        Beside("245.4", "sp state", {"F-245(sp-arm-any-slot)"}),
        Gate("245.5", "sp_arm verb", {}),
        Gate("245.6", "cc_test locals", {}) >>))

F_245 == IfExist({PortC, PortH, TestC}, Script("F_245", F_245_port \o <<F_245_test>>))

-----------------------------------------------------------------------------
\* A marked fixup of the test rig that also insists on earlier ones.
TestFixup(name, mark, need, edits) ==
    IfExist({TestC}, [Fixup(name, TestC, mark, edits)
        EXCEPT !.stages = << Needing(TestC, need, @[1]) >>])

F_246 == TestFixup("F_246", "F-246(sp-global-enable)", {}, <<
    Beside("246.1", "sp_load tail", {"F-246(sp-global-enable)"}),
    Beside("246.2", "sp_load verb", {}) >>)

F_248 == TestFixup("F_248", "F-248(cc-test-install-l2)", {"install_v6pid"}, <<
    Beside("248.1", "v6pid tail",
        {"F-248(cc-test-install-l2)", "install_l2", "l2 miss_fqid", "install_l2 tail"}),
    Beside("248.2", "install verb", {"install_l2 verb"}) >>)

F_249 == TestFixup("F_249", "F-249(install-l2-fe-coexist)", {"install_l2"},
    << Gate("249.1", "l2 miss_fqid", {"F-249(install-l2-fe-coexist)"}) >>)

F_250 == TestFixup("F_250", "F-250(cc-test-install-l2fwd)",
    {"install_l2", "cc_test_vlan_hm", "IPV4_FORWARD"}, <<
    Beside("250.1", "install_l2 tail", {"F-250(cc-test-install-l2fwd)"}),
    Beside("250.2", "install_l2 verb", {}) >>)

F_247 == TestFixup("F_247", "F-247(probe3-l2)", {"probe3", "install_l2", "saved_ricp"}, <<
    Gate("247.1", "probe3 mode", {"F-247(probe3-l2)"}),
    Gate("247.2", "probe3 reprefix", {}),
    Gate("247.3", "probe3 dispatch", {}) >>)

F_251 ==
    IfExist({CcC}, [Fixup("F_251", CcC, "F-251(cc-seq-dump-ad-table)", <<
        Gate("251.1", "dump keys", {"F-251(cc-seq-dump-ad-table)"}),
        Gate("251.2", "dump tail", {}) >>)
        EXCEPT !.stages = << Needing(CcC, {"seq_dump", "AD_ENTRY_SIZE"}, @[1]) >>])
=============================================================================
