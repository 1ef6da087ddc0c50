--------------------------- MODULE MCAsyncExporter ---------------------------
EXTENDS AsyncExporter
=============================================================================
