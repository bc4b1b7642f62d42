------------------------- MODULE MCDescriptorLifetimes -------------------------
(***************************************************************************)
(* Instances of DescriptorLifetimes for TLC.                               *)
(***************************************************************************)
EXTENDS DescriptorLifetimes, TLC

Sockets == {
    "StreamSocketClientDescriptor", "DgramSocketClientDescriptor",
    "DgramSocketServerDescriptor", "StreamSocketServer" }

\* Everything the library offers, in one thread that leaves close() to the destructors.
OneThread ==
    [classes |-> AllClasses, failingSetup |-> Sockets,
     explicitClose |-> FALSE, interleaved |-> FALSE]

\* Several threads and the classes that close their number once on every path.
CleanThreads ==
    [classes |-> AllClasses \ {"DgramSocketServerDescriptor"},
     failingSetup |-> {"StreamSocketServer"},
     explicitClose |-> FALSE, interleaved |-> TRUE]

\* Everything, in any number of threads, with close() before the destructor.
Anything ==
    [classes |-> AllClasses, failingSetup |-> Sockets,
     explicitClose |-> TRUE, interleaved |-> TRUE]

ThreePrograms == {OneThread, CleanThreads, Anything}

\* The programs of the counterexamples.
PipeClosers ==
    {[classes |-> {"Pipe"}, failingSetup |-> {}, explicitClose |-> TRUE, interleaved |-> FALSE]}
Connectors ==
    {[classes |-> {"StreamSocketClientDescriptor"},
      failingSetup |-> {"StreamSocketClientDescriptor"},
      explicitClose |-> FALSE, interleaved |-> TRUE]}
DgramServers ==
    {[classes |-> {"DgramSocketServerDescriptor"}, failingSetup |-> {},
      explicitClose |-> FALSE, interleaved |-> TRUE]}
DoubleClosers == PipeClosers \cup Connectors \cup DgramServers
FileReaders ==
    {[classes |-> {"FileDescriptor"}, failingSetup |-> {},
      explicitClose |-> FALSE, interleaved |-> FALSE]}

ObjectSymmetry == Permutations(Object)
================================================================================
