---------------------------- MODULE MCPanelClient ----------------------------
EXTENDS PanelClient

CONSTANTS s1, s2, s3

MCCaller == {s1, s2, s3}
MCCancellable == {s1, s2}
==============================================================================
