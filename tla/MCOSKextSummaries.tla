-------------------------- MODULE MCOSKextSummaries --------------------------
EXTENDS OSKextSummaries, TLC
CONSTANTS driver, family
mcParts == (driver :> <<"text", "data", "linkedit">>) @@ (family :> <<"text", "linkedit", "relocs">>)
mcPages == 1 .. 5
=============================================================================
