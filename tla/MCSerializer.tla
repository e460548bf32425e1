---------------------------- MODULE MCSerializer ----------------------------
EXTENDS SerializerDocuments, MCRoots
=============================================================================
