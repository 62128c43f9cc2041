\* One start; two suspend tokens; handlers come and go on four exceptionates.
SPECIFICATION FairSpec
CONSTANTS
  Runners = {r1}
  Tokens = {k1, k2}
  Handlers = {"Debugger", "Thread", "Job", "JobDebugger"}
  None = None
INVARIANTS SignalsMatch DebuggerSeesContext NoPanic
PROPERTIES FaultIsHandled KilledDies ResumedRuns
