---------------------------- MODULE KeygenFixups ----------------------------
(***************************************************************************)
(* The fixups of the FMan KeyGen, its port registers and the per-FMan      *)
(* engaged-port accounting.                                                *)
(***************************************************************************)
EXTENDS FixupText

\* The eighth mutate.py call: the default extraction mask.
KgMutation == Script("mutate8", <<Stage(On(KgC, <<Gate("m8.1", "EKFC default", {})>>))>>)

\* The inline repair F-062c-R2: drop the hybrid AC_CC encoding if it is there.
F_062c == Script("F_062c", <<Stage(On(KgC, <<Soft(Gate("62c.1", "AC_CC hybrid", {"AC_CC pure"}))>>))>>)

-----------------------------------------------------------------------------
F_162_port ==
    Stage(On(PortC, <<
        Unless({"NIA_KG_DIRECT"}, Loose(Beside("162.1", "NIA_KG_CC_EN", {"NIA_KG_DIRECT"}))),
        Unless({"set_kg_direct"}, Loose(Beside("162.2", "set_cc_base tail",
            {"set_kg_direct", "clear_kg_direct tail"}))) >>))

F_162_decls ==
    Stage(On(PortH, << Unless({"set_kg_direct decl"}, Loose(
        Gate("162.3", "port.h tail", {"set_kg_direct decl", "F-162 decls"}))) >>))

F_162_calls ==
    Stage(On(PcdKgC, <<
        Unless({"set_kg_direct(rxport"}, Loose(
            Gate("162.4", "attach_cc tail", {"set_kg_direct(rxport"}))),
        Unless({"clear_kg_direct(rxport"}, Loose(
            Gate("162.5", "detach_cc tail", {"clear_kg_direct(rxport"}))) >>))

\* F-162 reports an error when it finds nothing left to change.
F_162 ==
    IfExist({PortC, PortH, PcdKgC},
        [Script("F_162", <<F_162_port, F_162_decls, F_162_calls>>) EXCEPT !.idle = 1])

F_205_port ==
    Stage(On(PortC, << Unless({"set_lcv_split"}, Loose(Beside("205.1", "clear_kg_direct tail",
        {"set_lcv_split", "clear_lcv_split tail"}))) >>))

F_205 ==
    Script("F_205", << F_205_port,
        Stage(On(PortH, << Unless({"set_lcv_split"}, Loose(
            Beside("205.2", "F-162 decls", {"set_lcv_split", "clear_lcv decl"}))) >>)) >>)

\* F-168 looks for its whole block, verbatim, before it inserts it.
F_168 ==
    IfExist({PortC}, [Script("F_168", << Stage(On(PortC, <<
        Unless({"ungated INV0 SYNC"}, Loose(
            Beside("168.1", "fmbm_rccb write", {"ungated INV0 SYNC"}))) >>)) >>)
        EXCEPT !.idle = 1])

F_215_fman == <<
    Stage(On(FmanH, <<
        Unless({"cc_engaged_ports"}, Loose(Beside("215.1", "keygen field", {"cc_engaged_ports"}))),
        Unless({"engaged_get decl"}, Loose(
            Beside("215.2", "set_fpm_extc decl", {"engaged_get decl"}))) >>)),
    StageUnless(FmanC, "engaged_get def", On(FmanC, <<
        Loose(Beside("215.3", "set_fpm_extc export", {"engaged_get def"})) >>)) >>

\* The port step is skipped on the strength of the marker alone.
F_215 ==
    Script("F_215", F_215_fman \o << StageUnless(PortC, "F-215(sync-gate)", On(PortC, <<
        Loose(Gate("215.4", "ungated INV0 SYNC", {"F-215(sync-gate)"})),
        Loose(Beside("215.5", "post-INV0 comment", {})) >>)) >>)

-----------------------------------------------------------------------------
F_179 ==
    [Script("F_179", << Stage(On(KgC, <<
        Unless({"F-179: zero dv0"}, Loose(
            Gate("179.1", "ekfc override", {"F-179: zero dv0", "ekfc block"}))) >>)) >>)
        EXCEPT !.idle = 1]

F_201 == Fixup("F_201", KgC, "F-201", <<Gate("201.1", "F-051 clears", {"F-201"})>>)

\* Mutant: F-209 does not look for its marker.
F_209Unmarked == Script("F_209", << Stage(On(KgC, <<Beside("209.1", "AC_CC pure", {"F-209"})>>)) >>)

F_209 == Fixup("F_209", KgC, "F-209", <<Beside("209.1", "AC_CC pure", {"F-209"})>>)

F_224 ==
    IfExist({KgC}, Fixup("F_224", KgC, "F-224(dual-lane-gec)",
        << Beside("224.1", "ekfc block", {"F-224(dual-lane-gec)", "next_engine == 3", "gec[5]"}) >>))

F_236_scheme == <<
    StageUnless(KgH, "gec_dual_lane", On(KgH, << Loose(Gate("236.1", "cc_bits_sel end",
        {"gec_dual_lane", "gec_dual_lane field", "gec_dual_lane decl"})) >>)),
    Needing(KgC, {"F-224(dual-lane-gec)"},
        StageUnless(KgC, "F-236(cc-dual-lane)", On(KgC, << Loose(Gate("236.2", "next_engine == 3",
            {"F-236(cc-dual-lane)", "F-236 lane block", "gec lane test"})) >>))) >>

F_236_attach ==
    StageUnless(PcdKgC, "attach_cc_dual", On(PcdKgC, <<
        Loose(Beside("236.3", "export attach_cc", {"attach_cc_dual", "export attach_cc_dual"})) >>))

F_236 == Script("F_236", F_236_scheme \o <<F_236_attach>>)

F_238_scheme == <<
    Needing(KgH, {"gec_dual_lane"},
        StageUnless(KgH, "gec_keep_ekfc", On(KgH, <<
            Loose(Gate("238.1", "gec_dual_lane field", {"gec_keep_ekfc"})) >>))),
    Needing(KgC, {"F-236(cc-dual-lane)"},
        StageUnless(KgC, "F-238(ekfc-trigger-test)", On(KgC, <<
            Loose(Gate("238.2", "F-236 lane block", {"F-238(ekfc-trigger-test)"})) >>))) >>

F_238_attach ==
    StageUnless(PcdKgC, "attach_cc_dual_ekfc", On(PcdKgC, <<
        Loose(Beside("238.3", "export attach_cc_dual", {"attach_cc_dual_ekfc"})) >>))

F_238 == Script("F_238", F_238_scheme \o <<F_238_attach>>)

F_242 ==
    IfExist({KgC}, Fixup("F_242", KgC, "F-242(bmcl-noop-mask)",
        << Times(2, Gate("242.1", "kgse_bmcl = 0", {"F-242(bmcl-noop-mask)"})) >>))

-----------------------------------------------------------------------------
F_212 ==
    Script("F_212", << Stage(On(PcdKgC, <<
        Unless({"F-212(arm-lcv-split)"}, Loose(
            Gate("212.1", "v6 node word3", {"F-212(arm-lcv-split)"}))),
        Unless({"F-212(disarm-v6-teardown)"}, Loose(
            Beside("212.2", "disarm rxport", {"F-212(disarm-v6-teardown)"}))) >>)) >>)

F_214_plan == <<
    StageUnless(KgH, "cls_plan0_passall", On(KgH, <<
        Loose(Beside("214.1", "fman_keygen body", {"cls_plan0_passall"})) >>)),
    StageUnless(KgC, "cls_plan0_passall def", On(KgC, <<
        Loose(Beside("214.2", "bind_port export", {"cls_plan0_passall def"})) >>)) >>

F_214 ==
    Script("F_214", F_214_plan \o <<
        StageUnless(KgH, "cls_plan0_passall decl", On(KgH, <<
            Loose(Beside("214.3", "bind_port decl", {"cls_plan0_passall decl"})) >>)),
        StageUnless(PcdKgC, "F-214(call)", On(PcdKgC, <<
            Loose(Beside("214.4", "v6 bind call", {"F-214(call)"})) >>)) >>)
=============================================================================
