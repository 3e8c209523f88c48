--------------------------- MODULE MCPolarisStack ---------------------------
(* Constants for model checking PolarisStack, shared by its runs.          *)
EXTENDS PolarisStack, TLC

CONSTANTS t1, t2, b1, e1

(* Two templates, so that an edit can be told from the one before it.      *)
AllTemplates == {t1, t2}
OneTemplate  == {t1}

NoResources  == {}
OneBucket    == {b1}
OneRegistry  == {e1}

(* What PolarisSourceRepository and PolarisBuildPipeline ask for.          *)
StackOnly       == {StackFinalizer}
StackAndBuckets == {StackFinalizer, BucketsFinalizer}

TemplateSymmetry == Permutations(AllTemplates)
=============================================================================
