---------------------------- MODULE MCDtlsClient ----------------------------
EXTENDS DtlsClient
=============================================================================
