SPECIFICATION Spec
CONSTANTS Runs = {r1, r2} Size = 2
INVARIANTS TypeOK PublishedIsApproved ResumeIsSound
PROPERTY AloneIsSound
