---------------------------- MODULE MCGenerator ----------------------------
\* Instances of Generator.  Two generators and two iterators are moved,
\* assigned and copied into each other over three coroutines.
EXTENDS GeneratorLoop
=============================================================================
