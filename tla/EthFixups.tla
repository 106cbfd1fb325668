----------------------------- MODULE EthFixups -----------------------------
(***************************************************************************)
(* The fixups of the DPAA Ethernet driver, the SFP quirk table and the     *)
(* QMan portal driver.  One definition per script (a script that edits     *)
(* several files in separate passes has one per pass).  A passage is named *)
(* for the driver text it stands for; "F-..." passages are the markers the *)
(* scripts look for.                                                       *)
(***************************************************************************)
EXTENDS FixupText

\* mutate.py: one count-gated replacement given on the command line, without
\* any test for having been applied before.
Mutate(name, f, id, old, new) == Script(name, <<Stage(On(f, <<Gate(id, old, new)>>))>>)

\* The seven mutate.py calls of the driver before the fixups proper.
EthMutations == <<
    Mutate("mutate1", EthC, "m1.1", "TC_SETUP_BLOCK dispatch", {"TC_SETUP_BLOCK dispatch"}),
    Mutate("mutate2", EthC, "m2.1", "context_a 0x1e", {"context_a 0x9e"}),
    Mutate("mutate3", EthC, "m3.1", "context_a 0x9e", {"context_a 0x9a"}),
    Mutate("mutate4", EthC, "m4.1", "FQ_TD 2MB", {}),
    Mutate("mutate5", EthC, "m5.1", "MAX_BUF_COUNT 128", {}),
    Mutate("mutate6", EthC, "m6.1", "RX_PRIV_DATA", {}) >>

SfpMutation == Mutate("mutate7", SfpC, "m7.1", "SFP quirk", {"SFP quirk"})

\* F-072 never fails: what it cannot place it leaves out.  Its capture splits
\* the mainline hash read in two.
F_072 ==
    IfExist({EthC}, Script("F_072", << Stage(On(EthC, <<
        Unless({"extern kg_hash"}, Soft(Beside("72.1", "first static",
            {"extern kg_hash", "F-072 externs"}))),
        Unless({"hash_off capture"}, Cutting({"be32 hash read"}, Near({"be32 read"},
            Soft(Beside("72.2", "hash_result_offset", {"hash_off capture"}))))) >>)) >>))

F_101 ==
    IfExist({EthH}, Script("F_101",
        << Stage(On(EthH, <<Soft(Gate("101.1", "UMEM_CHUNK 3840", {}))>>)) >>))

\* NULL guards of the QMan poll path.  The two "v4" guards look for each
\* other's comment, and so do the two "v5" guards.
F_102 ==
    IfExist({QmanC}, Script("F_102", << Stage(On(QmanC, <<
        Unless({"v4 guard"}, Soft(Gate("102.1", "poll_portal_fast", {"v4 guard"}))),
        Unless({"v4 guard"}, Soft(Gate("102.2", "poll_portal_fast int", {"v4 guard"}))),
        Unless({"v4 guard"}, Soft(Beside("102.3", "p_poll_dqrr", {"v4 guard"}))),
        Unless({"v5 guard"}, Soft(Beside("102.4", "irqsource_add", {"v5 guard"}))),
        Unless({"v5 guard"}, Soft(Beside("102.5", "irqsource_remove", {"v5 guard"}))),
        Soft(Gate("102.6", "MR fqs", {})),
        Soft(Gate("102.7", "MR ern", {})),
        Soft(Gate("102.8", "SDQCR", {})) >>)) >>))

F_108 ==
    IfExist({EthC}, Script("F_108",
        << Stage(On(EthC, <<Soft(Every(Gate("108.1", "Err FD status", {})))>>)) >>))

\* F-216 guards the zero-address descriptor and puts the RXHASH block, with
\* whatever F-072 left in it, back to its mainline form.
F_216 ==
    IfExist({EthC}, Script("F_216", << Stage(On(EthC, <<
        Unless({"F-216(zero-fd-guard)"}, Loose(
            Gate("216.1", "rx error tail", {"F-216(zero-fd-guard)"}))),
        Unless({"F-216(rxhash-normalized)"}, Cutting({"hash_off capture"},
            Near({"qm_fd_contig branch", "hash_off capture"}, Loose(
                Gate("216.2", "RXHASH comment",
                     {"F-216(rxhash-normalized)", "be32 hash read"}))))) >>)) >>))

F_239_pcd ==
    StageUnless(PcdC, "probe2_buf", On(PcdC, <<
        Loose(Beside("239.1", "kg_hash globals", {"probe2_buf", "PROBE2_LEN"})),
        Loose(Beside("239.2", "hash_probe show", {})),
        Loose(Beside("239.3", "hash_probe file", {})) >>))

F_239_eth ==
    StageUnless(EthC, "probe2_buf", On(EthC, <<
        Loose(Beside("239.4", "F-072 externs", {"probe2_buf"})),
        Loose(Gate("239.5", "be32 hash read", {"probe2 capture"})) >>))

F_239 == IfExist({PcdC, EthC}, Script("F_239", <<F_239_pcd, F_239_eth>>))

F_258 == Fixup("F_258", EthC, "F-258", <<Gate("258.1", "probe2 capture", {"F-258"})>>)

-----------------------------------------------------------------------------
\* F-199 adds the no-confirm transmit queue: six reads and writes, one per
\* replacement.  The comments of the fourth quote F-227.
F_199_queue == <<
    Stage(On(EthH, <<Gate("199.1", "FQ_TYPE_TX_ERROR end", {})>>)),
    Stage(On(EthC, <<Gate("199.2", "CGR test", {"CGR no-confirm"})>>)),
    Stage(On(EthC, <<Gate("199.3", "CGR no-confirm", {})>>)),
    Stage(On(EthC, <<Beside("199.4", "context_a 0x9a", {"F-199", "F-227"})>>)) >>

F_199_helper == <<
    Stage(On(EthC, <<Gate("199.5", "get_tx_fqid export", {"WQ6 setup"})>>)),
    Stage(On(OffH, <<Gate("199.6", "offload.h decls", {})>>)) >>

\* On a tree that has F-199 it only verifies, or upgrades, the work queue.
F_199 ==
    [Script("F_199", F_199_queue \o F_199_helper)
        EXCEPT !.done = {<<EthC, "F-199">>},
               !.redo = << Stage(On(EthC, << Unless({"WQ6 setup"},
                              Gate("199.7", "egress setup", {"WQ6 setup"})) >>)) >>]

F_203 == Fixup("F_203", EthC, "BP_ORDER", <<
    Gate("203.1", "BP_RAW_SIZE", {"BP_ORDER", "BP_ORDER 1"}),
    Gate("203.2", "alloc order", {}),        Gate("203.3", "contig free", {}),
    Gate("203.4", "SGT free", {}),           Gate("203.5", "sg member free", {}),
    Gate("203.6", "sg error free", {}),      Gate("203.7", "xdp sg free", {}),
    Gate("203.8", "xdp tx free", {}),        Gate("203.9", "xdp redirect free", {}),
    Gate("203.10", "xdp drop free", {}) >>)

F_222 ==
    IfExist({EthC}, Fixup("F_222", EthC, "F-222(order0-revert)",
        <<Gate("222.1", "BP_ORDER 1", {"F-222(order0-revert)"})>>))

F_227 == Fixup("F_227", EthC, "F-227", <<Gate("227.1", "swbp branch", {"F-227"})>>)

F_229 ==
    IfExist({EthC}, Fixup("F_229", EthC, "F-229(force-sgmii-pause)",
        <<Gate("229.1", "phy connect", {"F-229(force-sgmii-pause)"})>>))
=============================================================================
