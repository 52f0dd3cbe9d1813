--------------------------- MODULE MCPluginHealth ---------------------------
EXTENDS PluginHealth, TLC
=============================================================================
