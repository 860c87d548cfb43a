---------------------------- MODULE MCFlowchCli ----------------------------
EXTENDS FlowchCli

MCLanes == {0, 1}
AllCmds == {"settle", "collect", "submit"}
SettleCollect == {"settle", "collect"}
SubmitOnly == {"submit"}
PushOnly == {"push"}
PushWait == {"push", "wait"}
WaitOnly == {"wait"}
=============================================================================
