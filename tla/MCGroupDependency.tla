-------------------------- MODULE MCGroupDependency --------------------------
EXTENDS GroupDependency
=============================================================================
