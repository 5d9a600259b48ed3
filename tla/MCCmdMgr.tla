------------------------------ MODULE MCCmdMgr ------------------------------
(* Instances of CmdMgr for TLC. *)
EXTENDS CmdMgr, TLC

CONSTANTS PsModeCfm, ConnectCfm

(* bl_send_mm_powersaving_req and bl_send_mm_denoise_req. *)
PsMode == [nonblock |-> FALSE, reqid |-> PsModeCfm]
(* bl_send_sm_connect_req. *)
Connect == [nonblock |-> FALSE, reqid |-> ConnectCfm]
(* bl_send_scanu_req: blocking, acknowledged only. *)
Scan == [nonblock |-> FALSE, reqid |-> NoCfm]
(* bl_send_me_rate_config_req: the one non-blocking request. *)
RateConfig == [nonblock |-> TRUE, reqid |-> NoCfm]

BlockingRequests == {PsMode, Scan}
NonBlockRequests == {Scan, RateConfig}
AllRequests == {PsMode, Connect, Scan, RateConfig}
CfmIds == {PsModeCfm, ConnectCfm}

Symmetry == Permutations(Task) \cup Permutations(Cmd)

=============================================================================
