----------------------------- MODULE MCSubDevices -----------------------------
\* SubDevices for TLC: two boards, one that can be reached on the primary
\* bus only and one on both.
EXTENDS SubDevices

CONSTANTS d1, d2

MCDevices == {d1, d2}
MCWired == {<<d1, "primary">>, <<d2, "primary">>, <<d2, "secondary">>}
=============================================================================
