---- MODULE MCProtocolSession ----
EXTENDS ProtocolSession

CONSTANTS t1, t2
MCThreads == {t1, t2}
====
