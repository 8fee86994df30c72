\* The callers' discipline, and a sender that may never return: one batch in
\* SendBatch, one in the queue and a third one waiting for the queue with
\* bc.mu held.
CONSTANTS
  Adders <- OneAdder
  Closers <- OneCloser
  MaxSize = 2
  SeqMax = 2
  LateAdds = FALSE
  MaxEvents = 6
SPECIFICATION StalledSpec
PROPERTY CloseReturns
