----------------------------- MODULE MCPlatform -----------------------------
EXTENDS Platform

\* An application on flash and one on the card.
CONSTANTS flash, card
=============================================================================
