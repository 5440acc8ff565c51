---------------------------- MODULE MCRagRuntime ----------------------------
\* Two requests of the API and one execution of a campaign.
EXTENDS RagRuntime
=============================================================================
