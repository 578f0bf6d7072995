---------------------------- MODULE MCAppService ----------------------------
EXTENDS AppService

CONSTANTS reader, panel, shell1, text1
=============================================================================
