------------------------------ MODULE MCBimap ------------------------------
\* The instances of BimapClient; the key sets are model values of the cfg.
EXTENDS BimapClient
=============================================================================
