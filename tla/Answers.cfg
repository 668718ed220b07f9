\* The components that answer: every one on small instances, one part a behaviour.
SPECIFICATION Spec
CONSTANTS
  c1 = c1
  c2 = c2
  c3 = c3
  r1 = r1
  r2 = r2
  u1 = u1
  u2 = u2
  t1 = t1
  t2 = t2
  t3 = t3
  clean = clean
  dirty = dirty
  NoAsk = NoAsk
  NoPayload = NoPayload
CHECK_DEADLOCK FALSE
INVARIANTS
  AnswersTypeOK
  RelationsAreTrue
  ViewsAddUp
  SelectionsAreFair
  ReadersMissNothing
  DocumentsAreTrue
  ChangesAreReported
  ReceiptsAreTrue
  CallsAreSound
PROPERTY
  PublishesVerified
