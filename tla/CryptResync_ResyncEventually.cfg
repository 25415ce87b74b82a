CONSTANTS
    MaxStep <- MCMaxStep
    MaxSteps <- MCMaxSteps
SPECIFICATION Spec
PROPERTY ResyncEventually
